---- MODULE Spec2Model ----
(***************************************************************************)
(* A model of tix's retrieval-augmented description generator:             *)
(* the diff chunker, the embedding batches, the cosine similarity and the  *)
(* vector store search (internal/services rag), the RAG/direct decision of *)
(* the description generators (internal/services/openai.go) and the        *)
(* --use-rag flag of the setdesc command (cmd/setdesc); and of the branch  *)
(* name helpers of internal/utils, the PollRun loop and the shared         *)
(* CreateMergeRequest flow (internal/services/scm.go).                     *)
(*                                                                         *)
(* Strings.  A Go string is modelled as a sequence of atoms.  An atom is a *)
(* fixed run of bytes that the code never looks inside:                    *)
(*    "\n"  the newline byte                                               *)
(*    " "   one space (white space for strings.TrimSpace)                  *)
(*    "x"   one byte that is neither white space nor the start of a header *)
(*    "G"   the ten bytes "diff --git"                                     *)
(*    "P"   the six bytes "+++ b/"                                         *)
(*    "K"   a run of BigAtomLen bytes "x" (a long line without newline)    *)
(*    "H"   the three bytes "## "                                          *)
(* Branch names and titles have atoms of their own (see package utils).   *)
(* Concatenation of strings is \o, the empty string is <<>>.               *)
(***************************************************************************)
EXTENDS Integers, Sequences, FiniteSets, TLC

VARIABLES
  pc,        \* position of the modelled call: "start" before it, "done" after
  diff,      \* the diff text handed to the call
  chunks,    \* the []Chunk returned by ChunkDiff
  kind,      \* which description is asked for, "MR" or "issue"; or which
             \* function is called, "Search" or "CosineSimilarity"
  forceRAG,  \* the *bool forceRAG of the generators: "nil", "true" or "false"
  out,       \* what the generator did and returned (see Outcome)
  cli,       \* setdesc's command line: --use-rag, --only-issue, --only-mr/--only-pr
  provider,  \* the calls setdesc sent to the SCM provider, in order
  runErr,    \* the error setdesc's RunE returned ("" for nil)
  embedding,   \* the state of the GenerateEmbeddings call (see EmbedState)
  vectorStore, \* vs.Vectors of the VectorStore searched
  searchQuery, \* the queryEmbedding handed to Search
  searchTopK,  \* the topK handed to Search
  searchOut,   \* what Search did: [panic, results]
  cosV1,       \* the first vector handed to CosineSimilarity
  cosV2,       \* the second one
  cosOut,      \* the float64 CosineSimilarity returned
  served,      \* what the OpenAI endpoints answered during a description
               \* request (see Envs)
  utilArg,     \* the arguments of a call of package utils
  utilOut,     \* what that call returned
  poll,        \* the state of a PollRun call (see PollState)
  flow         \* the state of a CreateMergeRequest call (see FlowState)

vars == <<pc, diff, chunks, kind, forceRAG, out, cli, provider, runErr,
          embedding, vectorStore, searchQuery, searchTopK, searchOut,
          cosV1, cosV2, cosOut, served, utilArg, utilOut, poll, flow>>
cliVars == <<cli, provider, runErr>>
embedVars == <<embedding>>
searchVars == <<vectorStore, searchQuery, searchTopK, searchOut>>
cosVars == <<cosV1, cosV2, cosOut>>
ragVars == <<embedVars, searchVars, cosVars>>
utilVars == <<utilArg, utilOut>>
toolVars == <<utilVars, poll, flow>>
restVars == <<served, toolVars>>

\* ---------------------------------------------------------------- bounds
\* Number of bytes the atom "K" stands for.
BigAtomLen == 99999
\* Longest free-form diff, in atoms, that Init enumerates exhaustively.
MaxSmallLen == 3
\* Most atoms "K" at the start of a diff handed to a description generator.
MaxBig == 2
\* Most single bytes that follow them.
MaxPad == 3
\* How many lines past maxLinesPerChunk the longest run of a large diff goes.
MaxOver == 1
\* Bits in the mantissa of a float64 of the model (53 in an IEEE double).
MantissaBits == 8
\* Most full batches in a chunk list handed to GenerateEmbeddings.
MaxBatches == 2
\* Most vectors in a store enumerated exhaustively.
MaxStore == 3
\* Most components of a vector handed to CosineSimilarity.
MaxDim == 2
\* Most atoms of a branch name.
MaxBranchLen == 5
\* Most runes of a string handed to TruncateAndDashCase.
MaxNameLen == 4
\* Most RetrieveRun calls of PollRun that are counted.
MaxPolls == 20
\* Most open requests GetOpenRequests returns.
MaxRequests == 2

\* ------------------------------------------------------- program constants
\* const maxLinesPerChunk = 800
maxLinesPerChunk == 800
\* const minLinesPerChunk = 100
minLinesPerChunk == 100

\* ---------------------------------------------------------------- strings
NL == "\n"
WhiteSpace == {" ", NL}

Max2(a, b) == IF a > b THEN a ELSE b
Min2(a, b) == IF a < b THEN a ELSE b

Front(s) == SubSeq(s, 1, Len(s) - 1)
Last(s) == s[Len(s)]

\* strings.HasPrefix(line, "diff --git")
HasPrefixDiffGit(line) == Len(line) > 0 /\ line[1] = "G"
\* strings.HasPrefix(line, "+++ b/")
HasPrefixPlusB(line) == Len(line) > 0 /\ line[1] = "P"
\* strings.HasPrefix(line, "+++"): among the atoms only "P" starts with "+++"
HasPrefixPlus(line) == Len(line) > 0 /\ line[1] = "P"
\* strings.TrimPrefix(line, "+++ b/"), used only on lines that have the prefix
TrimPrefixPlusB(line) == IF HasPrefixPlusB(line) THEN Tail(line) ELSE line
\* A test for the empty string only, where the code trims white space first.
LenNonEmpty(s) == Len(s) > 0
\* strings.TrimSpace(s) != ""
TrimSpaceNonEmpty(s) == \E i \in 1..Len(s) : s[i] \notin WhiteSpace

\* strings.Split(s[lo..hi], "\n"): the pieces between the newlines, one more
\* piece than there are newlines (so never an empty sequence).  Computed by
\* halving the range, which keeps the evaluation depth logarithmic.
RECURSIVE SplitRange(_, _, _)
SplitRange(s, lo, hi) ==
  IF lo > hi THEN << <<>> >>
  ELSE IF lo = hi THEN (IF s[lo] = NL THEN << <<>>, <<>> >> ELSE << <<s[lo]>> >>)
  ELSE LET mid == (lo + hi) \div 2
           a == SplitRange(s, lo, mid)
           b == SplitRange(s, mid + 1, hi)
       IN Front(a) \o << Last(a) \o Head(b) >> \o Tail(b)

\* strings.Split(s, "\n")
Split(s) == SplitRange(s, 1, Len(s))

\* ------------------------------------------------------------- ChunkDiff
\* The locals of ChunkDiff before its loop.
ChunkInit ==
  [chunks |-> <<>>, currentChunk |-> <<>>, currentFilePath |-> <<>>,
   currentLines |-> 0, chunkIndex |-> 0]

\* The chunk appended from the buffers, as both append sites build it.
MkChunk(content, index, filePath, nlines) ==
  [Content |-> content, Index |-> index, FilePath |-> filePath, Lines |-> nlines]

\* shouldCreateChunk with the maximum compared by > instead of >=.
ShouldCreateChunkOffByOne(lines, i, currentLines) ==
  IF currentLines > maxLinesPerChunk THEN TRUE
  ELSE /\ i < Len(lines)
       /\ HasPrefixDiffGit(lines[i + 1])
       /\ currentLines >= minLinesPerChunk

\* shouldCreateChunk without the minimum: every file header ends a chunk.
ShouldCreateChunkNoMin(lines, i, currentLines) ==
  IF currentLines >= maxLinesPerChunk THEN TRUE
  ELSE /\ i < Len(lines)
       /\ HasPrefixDiffGit(lines[i + 1])

\* shouldCreateChunk looking at the line just buffered instead of the next.
ShouldCreateChunkThisLine(lines, i, currentLines) ==
  IF currentLines >= maxLinesPerChunk THEN TRUE
  ELSE /\ i < Len(lines)
       /\ HasPrefixDiffGit(lines[i])
       /\ currentLines >= minLinesPerChunk

\* shouldCreateChunk, decided after line i (1-based) has been buffered.
ShouldCreateChunk(lines, i, currentLines) ==
  IF currentLines >= maxLinesPerChunk THEN TRUE
  ELSE /\ i < Len(lines)
       /\ HasPrefixDiffGit(lines[i + 1])
       /\ currentLines >= minLinesPerChunk

\* chunkIndex counting every buffer that ends, the dropped ones included.
NextChunkIndexAlways(content, chunkIndex) == chunkIndex + 1

\* chunkIndex after a buffer ends: it advances only when a chunk is appended.
NextChunkIndex(content, chunkIndex) ==
  IF TrimSpaceNonEmpty(content) THEN chunkIndex + 1 ELSE chunkIndex

\* The iteration forgetting currentFilePath when it ends a buffer.
ChunkStepNoCarry(lines, i, st) ==
  LET line == lines[i]
      path == IF (HasPrefixDiffGit(line) \/ HasPrefixPlus(line)) /\ HasPrefixPlusB(line)
              THEN TrimPrefixPlusB(line)
              ELSE st.currentFilePath
      content == st.currentChunk \o line \o <<NL>>
      nlines == st.currentLines + 1
  IN IF ShouldCreateChunk(lines, i, nlines)
     THEN [chunks |-> IF TrimSpaceNonEmpty(content)
                      THEN Append(st.chunks, MkChunk(content, st.chunkIndex, path, nlines))
                      ELSE st.chunks,
           currentChunk |-> <<>>,
           currentFilePath |-> <<>>,
           currentLines |-> 0,
           chunkIndex |-> NextChunkIndex(content, st.chunkIndex)]
     ELSE [chunks |-> st.chunks,
           currentChunk |-> content,
           currentFilePath |-> path,
           currentLines |-> nlines,
           chunkIndex |-> st.chunkIndex]

\* One iteration of ChunkDiff's loop, on line i (1-based) of lines.
ChunkStep(lines, i, st) ==
  LET line == lines[i]
      path == IF (HasPrefixDiffGit(line) \/ HasPrefixPlus(line)) /\ HasPrefixPlusB(line)
              THEN TrimPrefixPlusB(line)
              ELSE st.currentFilePath
      content == st.currentChunk \o line \o <<NL>>
      nlines == st.currentLines + 1
  IN IF ShouldCreateChunk(lines, i, nlines)
     THEN [chunks |-> IF TrimSpaceNonEmpty(content)
                      THEN Append(st.chunks, MkChunk(content, st.chunkIndex, path, nlines))
                      ELSE st.chunks,
           currentChunk |-> <<>>,
           currentFilePath |-> path,
           currentLines |-> 0,
           chunkIndex |-> NextChunkIndex(content, st.chunkIndex)]
     ELSE [chunks |-> st.chunks,
           currentChunk |-> content,
           currentFilePath |-> path,
           currentLines |-> nlines,
           chunkIndex |-> st.chunkIndex]

\* The loop over lines lo..hi started in state st.  The range is halved and
\* the first half is evaluated (the test on it holds always) before the
\* second half starts, so that the evaluation depth stays logarithmic in the
\* number of lines.
RECURSIVE ChunkLoop(_, _, _, _)
ChunkLoop(lines, lo, hi, st) ==
  IF lo > hi THEN st
  ELSE IF lo = hi THEN ChunkStep(lines, lo, st)
  ELSE LET mid == (lo + hi) \div 2
           first == ChunkLoop(lines, lo, mid, st)
       IN IF first.chunkIndex >= 0 THEN ChunkLoop(lines, mid + 1, hi, first) ELSE first

\* The remainder kept only when it reaches the minimum chunk size.
ChunkRemainderMin(st) ==
  IF st.currentLines >= minLinesPerChunk /\ TrimSpaceNonEmpty(st.currentChunk)
  THEN Append(st.chunks,
              MkChunk(st.currentChunk, st.chunkIndex, st.currentFilePath, st.currentLines))
  ELSE st.chunks

\* The remainder appended without the white-space test.
ChunkRemainderKeepBlank(st) ==
  IF Len(st.currentChunk) > 0
  THEN Append(st.chunks,
              MkChunk(st.currentChunk, st.chunkIndex, st.currentFilePath, st.currentLines))
  ELSE st.chunks

\* "Add remaining content", after the loop.
ChunkRemainder(st) ==
  IF Len(st.currentChunk) > 0 /\ TrimSpaceNonEmpty(st.currentChunk)
  THEN Append(st.chunks,
              MkChunk(st.currentChunk, st.chunkIndex, st.currentFilePath, st.currentLines))
  ELSE st.chunks

ChunkDiff(d) ==
  LET lines == Split(d)
  IN ChunkRemainder(ChunkLoop(lines, 1, Len(lines), ChunkInit))

\* ------------------------------------------------- embeddings and search
\* batchSize := 50
batchSize == 50

\* len(text): the bytes of a string, atom by atom ("G" is ten bytes, "P" six,
\* "H" three, "K" BigAtomLen, every other atom one).
StrLen(s) ==
  LET n(a) == Cardinality({i \in 1..Len(s) : s[i] = a})
  IN Len(s) + 9 * n("G") + 5 * n("P") + 2 * n("H") + (BigAtomLen - 1) * n("K")

\* EstimateTokenCount
EstimateTokenCount(text) == StrLen(text) \div 4

\* strings.TrimSpace(s)
TrimSpace(s) ==
  LET keep == {i \in 1..Len(s) : s[i] \notin WhiteSpace}
  IN IF keep = {} THEN <<>>
     ELSE SubSeq(s, CHOOSE i \in keep : \A j \in keep : i <= j,
                    CHOOSE i \in keep : \A j \in keep : j <= i)

\* The sum of v1[i] * v2[i] over the index set I, split in halves.
RECURSIVE DotRange(_, _, _, _)
DotRange(v1, v2, lo, hi) ==
  IF lo > hi THEN 0
  ELSE IF lo = hi THEN v1[lo] * v2[lo]
  ELSE DotRange(v1, v2, lo, (lo + hi) \div 2) + DotRange(v1, v2, (lo + hi) \div 2 + 1, hi)

\* ------------------------------------------------------------- float64
\* A float64 is [m |-> mantissa, e |-> exponent] and stands for m * 2^e: the
\* mantissa is signed and has exactly MantissaBits bits (an IEEE double has
\* 53), or the float is zero, [m |-> 0, e |-> 0].  Every operation rounds its
\* exact result to the nearest float, ties to even, as IEEE arithmetic does.
RECURSIVE Pow2(_)
Pow2(n) == IF n <= 0 THEN 1 ELSE 2 * Pow2(n - 1)

Abs(x) == IF x < 0 THEN 0 - x ELSE x
Sign(x) == IF x < 0 THEN 0 - 1 ELSE IF x > 0 THEN 1 ELSE 0

FloatZero == [m |-> 0, e |-> 0]

\* The float nearest to (n / d) * 2^e, for n > 0 and d > 0.
RECURSIVE RoundPos(_, _, _)
RoundPos(n, d, e) ==
  IF n < d * Pow2(MantissaBits - 1) THEN RoundPos(2 * n, d, e - 1)
  ELSE IF n >= d * Pow2(MantissaBits) THEN RoundPos(n, 2 * d, e + 1)
  ELSE LET q == n \div d
           r == n % d
           up == 2 * r > d \/ (2 * r = d /\ q % 2 = 1)
           m == IF up THEN q + 1 ELSE q
       IN IF m = Pow2(MantissaBits) THEN [m |-> Pow2(MantissaBits - 1), e |-> e + 1]
          ELSE [m |-> m, e |-> e]

\* math.Sqrt(x) for a float x > 0 that is an integer n: the root of
\* n * 4^k, for the k that gives it MantissaBits bits, rounded (the root of
\* an integer is never half way between two floats).
FloatSqrt(n) ==
  LET k == CHOOSE j \in 0..MantissaBits :
             /\ n * Pow2(2 * j) >= Pow2(2 * MantissaBits - 2)
             /\ n * Pow2(2 * j) < Pow2(2 * MantissaBits)
      big == n * Pow2(2 * k)
      root == CHOOSE r \in Pow2(MantissaBits - 1)..(Pow2(MantissaBits) - 1) :
                r * r <= big /\ big < (r + 1) * (r + 1)
      m == IF big - root * root > root THEN root + 1 ELSE root
  IN IF m = Pow2(MantissaBits) THEN [m |-> Pow2(MantissaBits - 1), e |-> 1 - k]
     ELSE [m |-> m, e |-> 0 - k]

\* a * b
FloatMul(a, b) ==
  IF a.m = 0 \/ b.m = 0 THEN FloatZero
  ELSE LET r == RoundPos(Abs(a.m) * Abs(b.m), 1, a.e + b.e)
       IN [m |-> Sign(a.m) * Sign(b.m) * r.m, e |-> r.e]

\* a / b for a float a that is an integer x, and b # 0
FloatDiv(x, b) ==
  IF x = 0 THEN FloatZero
  ELSE LET r == RoundPos(Abs(x), Abs(b.m), 0 - b.e)
       IN [m |-> Sign(x) * Sign(b.m) * r.m, e |-> r.e]

\* a < b
FloatLess(a, b) ==
  IF Sign(a.m) # Sign(b.m) THEN Sign(a.m) < Sign(b.m)
  ELSE IF a.m = 0 THEN FALSE
  ELSE IF a.e # b.e THEN (IF a.m > 0 THEN a.e < b.e ELSE a.e > b.e)
  ELSE a.m < b.m

\* CosineSimilarity without the length check, over the components both
\* vectors have.
CosineSimilarityCommon(v1, v2) ==
  LET n == Min2(Len(v1), Len(v2))
      dotProduct == DotRange(v1, v2, 1, n)
      norm1 == DotRange(v1, v1, 1, n)
      norm2 == DotRange(v2, v2, 1, n)
  IN IF norm1 = 0 \/ norm2 = 0 THEN FloatZero
     ELSE FloatDiv(dotProduct, FloatMul(FloatSqrt(norm1), FloatSqrt(norm2)))

\* CosineSimilarity.  The components of the vectors are integers small
\* enough for dotProduct, norm1 and norm2 to be accumulated without rounding
\* (less than 2^MantissaBits); the two roots, their product and the quotient
\* are rounded.
CosineSimilarity(v1, v2) ==
  IF Len(v1) # Len(v2) THEN FloatZero
  ELSE LET dotProduct == DotRange(v1, v2, 1, Len(v1))
           norm1 == DotRange(v1, v1, 1, Len(v1))
           norm2 == DotRange(v2, v2, 1, Len(v2))
       IN IF norm1 = 0 \/ norm2 = 0 THEN FloatZero
          ELSE FloatDiv(dotProduct, FloatMul(FloatSqrt(norm1), FloatSqrt(norm2)))

\* less(i, j) of Search: results[i].Similarity > results[j].Similarity
SimGreater(a, b) == FloatLess(b, a)

\* sort.Slice sorts slices of at most maxInsertion elements by insertion
\* sort (Go's sort package, used by the builds of Go 1.23 and later).
maxInsertion == 12

\* The insertion sort of sort.Slice, with less(i, j) = results[i].Similarity >
\* results[j].Similarity: an element moves in front of those that are less
\* than it only, so equal elements keep their order.
SortBySimilarity(results) ==
  LET n == Len(results)
      before(j, i) ==
        \/ SimGreater(results[j].Similarity, results[i].Similarity)
        \/ /\ ~SimGreater(results[i].Similarity, results[j].Similarity)
           /\ j < i
      rank(i) == Cardinality({j \in 1..n : before(j, i)})
  IN [k \in 1..n |-> results[CHOOSE i \in 1..n : rank(i) = k - 1]]

\* Every order of sorted (which is in descending order from position from on)
\* that differs from it only among elements of equal similarity.
RECURSIVE TieOrders(_, _)
TieOrders(sorted, from) ==
  IF from > Len(sorted) THEN {<<>>}
  ELSE LET same == {j \in from..Len(sorted) : sorted[j].Similarity = sorted[from].Similarity}
           to == from + Cardinality(same) - 1
       IN {[j \in 1..Cardinality(same) |-> sorted[p[from + j - 1]]] \o rest :
             p \in Permutations(from..to), rest \in TieOrders(sorted, to + 1)}

\* What sort.Slice may leave in results: "The sort is not guaranteed to be
\* stable".  Up to maxInsertion elements it is the insertion sort; above, the
\* pattern-defeating quicksort, which puts the elements in descending order
\* and elements of equal similarity in an order of its own.
SortOutcomes(results) ==
  IF Len(results) <= maxInsertion THEN {SortBySimilarity(results)}
  ELSE TieOrders(SortBySimilarity(results), 1)

\* VectorStore.Search panics on results[:topK] with a negative topK.
SearchPanics(vectors, topK) == Len(vectors) > 0 /\ topK < 0

\* The results slice of Search before it is sorted; At is the index i of
\* &vs.Vectors[i].
SearchResults(vectors, queryEmbedding) ==
  [i \in 1..Len(vectors) |->
     [Vector |-> vectors[i], At |-> i,
      Similarity |-> CosineSimilarity(queryEmbedding, vectors[i].Embedding)]]

\* Search keeping one result too many.
SearchOutcomesOneMore(vectors, queryEmbedding, topK) ==
  IF Len(vectors) = 0 THEN {[panic |-> FALSE, results |-> <<>>]}
  ELSE IF topK < 0 THEN {[panic |-> TRUE, results |-> <<>>]}
  ELSE {[panic |-> FALSE, results |-> SubSeq(sorted, 1, Min2(topK + 1, Len(sorted)))] :
          sorted \in SortOutcomes(SearchResults(vectors, queryEmbedding))}

\* Search without the sort.
SearchOutcomesUnsorted(vectors, queryEmbedding, topK) ==
  IF Len(vectors) = 0 THEN {[panic |-> FALSE, results |-> <<>>]}
  ELSE IF topK < 0 THEN {[panic |-> TRUE, results |-> <<>>]}
  ELSE {[panic |-> FALSE,
         results |-> SubSeq(SearchResults(vectors, queryEmbedding), 1, Min2(topK, Len(vectors)))]}

\* VectorStore.Search: what a call may do, which is to panic (slice bounds out
\* of range) or to return results.
SearchOutcomes(vectors, queryEmbedding, topK) ==
  IF Len(vectors) = 0 THEN {[panic |-> FALSE, results |-> <<>>]}
  ELSE IF SearchPanics(vectors, topK) THEN {[panic |-> TRUE, results |-> <<>>]}
  ELSE {[panic |-> FALSE, results |-> SubSeq(sorted, 1, Min2(topK, Len(sorted)))] :
          sorted \in SortOutcomes(SearchResults(vectors, queryEmbedding))}

\* The number of embedding requests for n chunks.
NumBatches(n) == (n + batchSize - 1) \div batchSize

\* What the embedding endpoint answers to a request of b inputs, given the
\* way r it behaves: it fails, or it returns b - 1, b or b + 1 embeddings
\* (r.count is "short", "exact" or "long") whose values repeat r.values.
EmbeddingResponse(r, b) ==
  IF r.count = "err" THEN [err |-> TRUE, Data |-> <<>>]
  ELSE LET m == CASE r.count = "short" -> Max2(b - 1, 0)
                  [] r.count = "exact" -> b
                  [] OTHER -> b + 1
       IN [err |-> FALSE,
           Data |-> [j \in 1..m |-> r.values[((j - 1) % Len(r.values)) + 1]]]

\* The state of a GenerateEmbeddings call: pc is "loop" at the head of the
\* batch loop, "wait" inside client.CreateEmbeddings and "done" once it
\* returned or panicked; i is the loop variable; calls are the requests it
\* issued, in order, and resps the answers that came back; vectors, err
\* ("" for nil) and panic are what it returns once done.
EmbedState(p, i, vectors, sent, resps, err, panic) ==
  [pc |-> p, i |-> i, vectors |-> vectors, calls |-> sent, resps |-> resps,
   err |-> err, panic |-> panic]

\* GenerateEmbeddings without the check for no chunks.
EmbedEntryNoCheck(cs) == EmbedState("loop", 0, <<>>, <<>>, <<>>, "", FALSE)

\* GenerateEmbeddings up to the batch loop.
EmbedEntry(cs) ==
  IF Len(cs) = 0 THEN EmbedState("done", 0, <<>>, <<>>, <<>>, "no chunks to embed", FALSE)
  ELSE EmbedState("loop", 0, <<>>, <<>>, <<>>, "", FALSE)

\* A batch that holds every chunk from i on.
BatchToEnd(cs, i) == SubSeq(cs, i + 1, Len(cs))

\* batch := chunks[i:end]
Batch(cs, i) == SubSeq(cs, i + 1, Min2(i + batchSize, Len(cs)))

\* openai.EmbeddingRequestStrings{Input: inputs, Model: openai.SmallEmbedding3}
EmbeddingRequest(batch) ==
  [api |-> "embeddings", model |-> "SmallEmbedding3",
   input |-> [j \in 1..Len(batch) |-> batch[j].Content]]

\* The head of the batch loop in state st: the function returns the vectors,
\* or issues the request for the batch at st.i.
EmbedIssue(cs, st) ==
  IF st.i >= Len(cs)
  THEN EmbedState("done", st.i, st.vectors, st.calls, st.resps, "", FALSE)
  ELSE EmbedState("wait", st.i, st.vectors,
                  Append(st.calls, EmbeddingRequest(Batch(cs, st.i))), st.resps, "", FALSE)

\* The loop body going on to the next batch after a request failed.
EmbedHandleIgnoreError(cs, st, resp) ==
  IF Len(resp.Data) > Len(Batch(cs, st.i))
  THEN EmbedState("done", st.i, <<>>, st.calls, Append(st.resps, resp), "", TRUE)
  ELSE EmbedState("loop", st.i + batchSize,
         st.vectors \o [j \in 1..Len(resp.Data) |->
                          [Chunk |-> Batch(cs, st.i)[j], Embedding |-> resp.Data[j]]],
         st.calls, Append(st.resps, resp), "", FALSE)

\* The rest of the loop body once client.CreateEmbeddings came back with
\* resp: an error ends the function; &batch[j] panics (index out of range)
\* when resp.Data is longer than the batch; else one vector is appended per
\* element of resp.Data.
EmbedHandle(cs, st, resp) ==
  IF resp.err
  THEN EmbedState("done", st.i, <<>>, st.calls, Append(st.resps, resp),
                  "failed to generate embeddings", FALSE)
  ELSE IF Len(resp.Data) > Len(Batch(cs, st.i))
  THEN EmbedState("done", st.i, <<>>, st.calls, Append(st.resps, resp), "", TRUE)
  ELSE EmbedState("loop", st.i + batchSize,
         st.vectors \o [j \in 1..Len(resp.Data) |->
                          [Chunk |-> Batch(cs, st.i)[j], Embedding |-> resp.Data[j]]],
         st.calls, Append(st.resps, resp), "", FALSE)

\* The batch loop of GenerateEmbeddings from state st on; embed[k] is the
\* endpoint's behaviour on the k-th request.
RECURSIVE EmbedBatches(_, _, _)
EmbedBatches(cs, embed, st) ==
  IF st.pc = "done" THEN st
  ELSE IF st.pc = "loop" THEN EmbedBatches(cs, embed, EmbedIssue(cs, st))
  ELSE EmbedBatches(cs, embed,
         EmbedHandle(cs, st, EmbeddingResponse(embed[Len(st.calls)],
                                               Len(Batch(cs, st.i)))))

\* GenerateEmbeddings
GenerateEmbeddings(cs, embed) == EmbedBatches(cs, embed, EmbedEntry(cs))

\* ------------------------------------------------ description generators
\* const smallDiffThreshold = 50000
smallDiffThreshold == 50000
\* topK := 15
retrievalTopK == 15

\* The current issue title handed to the issue generator.
CurrentTitle == <<"x">>

\* buildMRPrompt / buildIssuePrompt: the template with diffContent (and, for
\* an issue, currentTitle) substituted.
BuildPrompt(k, diffContent) ==
  IF k = "MR" THEN [template |-> "MR", diffContent |-> diffContent]
  ELSE [template |-> "issue", diffContent |-> diffContent, currentTitle |-> CurrentTitle]

\* client.CreateChatCompletion's request.
ChatCall(model, prompt) == [api |-> "chat", model |-> model, prompt |-> prompt]

\* The result of a generator: the calls it sent downstream in order, the
\* function that served it (path), whether it ran ChunkDiff, and what it
\* returned (err is "" for nil; panic is an index-out-of-range crash).
Outcome(path, chunked, sent, title, desc, err, panic) ==
  [path |-> path, chunked |-> chunked, calls |-> sent,
   title |-> title, desc |-> desc, err |-> err, panic |-> panic]

\* No command line: the generators are called directly.
NoCommandLine == [useRag |-> "absent", onlyIssue |-> FALSE, onlyMR |-> FALSE]

\* No generator has run.
NoOutcome == Outcome("none", FALSE, <<>>, <<>>, <<>>, "", FALSE)

\* The title extraction keeping the white space around the title and the body.
ExtractTitleUntrimmed(description) ==
  IF Len(description) > 0 /\ description[1] = "H"
  THEN LET lines == Split(description)
           first == lines[1]
           rest == SubSeq(description, Len(first) + 2, Len(description))
       IN [title |-> Tail(first), desc |-> rest]
  ELSE [title |-> <<>>, desc |-> description]

\* "Extract title if present", on the completion's content.
ExtractTitle(description) ==
  IF Len(description) > 0 /\ description[1] = "H"
  THEN LET lines == Split(description)
           first == lines[1]
           rest == SubSeq(description, Len(first) + 2, Len(description))
       IN [title |-> TrimSpace(Tail(first)), desc |-> TrimSpace(rest)]
  ELSE [title |-> <<>>, desc |-> description]

\* The completion handling that falls back on the diff's first chunk of
\* text when the completion has no choice.
FromCompletionFallback(k, path, chunked, sent, chat) ==
  IF chat.err
  THEN Outcome(path, chunked, sent, <<>>, <<>>,
               IF k = "MR" THEN "failed to generate description"
               ELSE "failed to generate issue description", FALSE)
  ELSE IF Len(chat.Choices) = 0
  THEN Outcome(path, chunked, sent, <<>>, <<"x">>, "", FALSE)
  ELSE IF k = "MR"
  THEN Outcome(path, chunked, sent, <<>>, chat.Choices[1], "", FALSE)
  ELSE Outcome(path, chunked, sent, ExtractTitle(chat.Choices[1]).title,
               ExtractTitle(chat.Choices[1]).desc, "", FALSE)

\* What a generator returns from the completion response chat.
FromCompletion(k, path, chunked, sent, chat) ==
  IF chat.err
  THEN Outcome(path, chunked, sent, <<>>, <<>>,
               IF k = "MR" THEN "failed to generate description"
               ELSE "failed to generate issue description", FALSE)
  ELSE IF Len(chat.Choices) = 0
  THEN Outcome(path, chunked, sent, <<>>, <<>>, "no response from OpenAI", FALSE)
  ELSE IF k = "MR"
  THEN Outcome(path, chunked, sent, <<>>, chat.Choices[1], "", FALSE)
  ELSE Outcome(path, chunked, sent, ExtractTitle(chat.Choices[1]).title,
               ExtractTitle(chat.Choices[1]).desc, "", FALSE)

\* The direct path sending only the first line of the diff.
GenerateDirectFirstLine(k, d, env) ==
  FromCompletion(k, "direct", FALSE,
    << ChatCall(IF k = "MR" THEN "GPT5Mini" ELSE "GPT4o", BuildPrompt(k, Head(Split(d)))) >>,
    env.chat)

\* generateMRDescriptionDirect / generateIssueDescriptionDirect
GenerateDirect(k, d, env) ==
  FromCompletion(k, "direct", FALSE,
    << ChatCall(IF k = "MR" THEN "GPT5Mini" ELSE "GPT4o", BuildPrompt(k, d)) >>,
    env.chat)

\* "Step 6: Build context from retrieved chunks": the header and, per
\* result, its number, its similarity, its file path when not empty, and
\* its content.
BuildContext(results) ==
  [header |-> "Here are the most relevant code changes:",
   changes |-> [i \in 1..Len(results) |->
                  [change |-> i,
                   similarity |-> results[i].Similarity,
                   file |-> results[i].Vector.Chunk.FilePath,
                   content |-> results[i].Vector.Chunk.Content]]]

\* generateMRDescriptionWithRAG / generateIssueDescriptionWithRAG: the
\* outcomes the request may have (one, but for the order sort.Slice leaves
\* chunks of equal similarity in).
GenerateWithRAG(k, d, env) ==
  LET cs == ChunkDiff(d)
      emb == GenerateEmbeddings(cs, env.embed)
      queryCall == [api |-> "embeddings", model |-> "SmallEmbedding3",
                    input |-> << [query |-> k] >>]
      sent2 == Append(emb.calls, queryCall)
      topK == Min2(retrievalTopK, Len(cs))
      sent3(results) ==
        Append(sent2, ChatCall("GPT4o", BuildPrompt(k, BuildContext(results))))
  IN IF Len(cs) = 0
     THEN {Outcome("rag", TRUE, <<>>, <<>>, <<>>, "no chunks generated from diff", FALSE)}
     ELSE IF emb.panic
     THEN {Outcome("rag", TRUE, emb.calls, <<>>, <<>>, "", TRUE)}
     ELSE IF emb.err # ""
     THEN {Outcome("rag", TRUE, emb.calls, <<>>, <<>>, "failed to generate embeddings", FALSE)}
     ELSE IF env.query.err
     THEN {Outcome("rag", TRUE, sent2, <<>>, <<>>, "failed to generate query embedding", FALSE)}
     ELSE IF Len(env.query.Data) = 0
     THEN {Outcome("rag", TRUE, sent2, <<>>, <<>>, "no query embedding returned", FALSE)}
     ELSE {FromCompletion(k, "rag", TRUE, sent3(o.results), env.chat) :
             o \in SearchOutcomes(emb.vectors, env.query.Data[1], topK)}

\* useRAG decided by the size of the diff alone.
UseRAGAutoOnly(force, d) == EstimateTokenCount(d) >= smallDiffThreshold

\* useRAG with the threshold compared by > instead of >=.
UseRAGAbove(force, d) ==
  IF force # "nil" THEN force = "true"
  ELSE EstimateTokenCount(d) > smallDiffThreshold

\* useRAG, as both ...WithOptions functions compute it; force is the
\* *bool forceRAG: "nil", or the value it points to.
UseRAG(force, d) ==
  IF force # "nil" THEN force = "true"
  ELSE EstimateTokenCount(d) >= smallDiffThreshold

\* GenerateMRDescriptionWithOptions (k = "MR") and
\* GenerateIssueDescriptionWithOptions (k = "issue").
GenerateDescriptionWithOptions(k, d, force, env) ==
  IF UseRAG(force, d) THEN GenerateWithRAG(k, d, env) ELSE {GenerateDirect(k, d, env)}

\* The endpoints before any request: nothing was answered.
NoEnv ==
  [embed |-> <<>>, query |-> [err |-> FALSE, Data |-> <<>>],
   chat |-> [err |-> FALSE, Choices |-> <<>>]]

\* ------------------------------------------------------- package utils
\* A branch name is a sequence of atoms: the decimal digits, "a" (a letter),
\* "-", "+" and "N", which stands for the nineteen digits
\* "9999999999999999999", a numeral that no int holds.
DigitChars == <<"0", "1", "2", "3", "4", "5", "6", "7", "8", "9">>
IsDigitChar(c) == \E i \in 1..Len(DigitChars) : DigitChars[i] = c
DigitValue(c) == (CHOOSE i \in 1..Len(DigitChars) : DigitChars[i] = c) - 1

\* strings.Split(s, "-"): the parts between the dashes, one part (s itself,
\* be it empty) when s holds no dash.
RECURSIVE SplitDash(_)
SplitDash(s) ==
  IF \A i \in 1..Len(s) : s[i] # "-" THEN <<s>>
  ELSE LET i == CHOOSE k \in 1..Len(s) : s[k] = "-" /\ \A j \in 1..(k - 1) : s[j] # "-"
       IN <<SubSeq(s, 1, i - 1)>> \o SplitDash(SubSeq(s, i + 1, Len(s)))

\* The value of the decimal digits ds, most significant first.
RECURSIVE DecimalValue(_)
DecimalValue(ds) ==
  IF Len(ds) = 0 THEN 0
  ELSE 10 * DecimalValue(SubSeq(ds, 1, Len(ds) - 1)) + DigitValue(ds[Len(ds)])

\* strconv.Atoi(s): a syntax error for the empty string, for a sign alone
\* and for any character that is not a decimal digit; a range error for a
\* numeral outside int (one that holds "N"); else the value, the sign "+"
\* (or "-", which no part of a split name holds) dropped.
Atoi(s) ==
  LET digits == IF Len(s) > 0 /\ s[1] \in {"+", "-"} THEN Tail(s) ELSE s
      negative == Len(s) > 0 /\ s[1] = "-"
  IN IF Len(digits) = 0 THEN [ok |-> FALSE, n |-> 0]
     ELSE IF \E i \in 1..Len(digits) : ~IsDigitChar(digits[i]) /\ digits[i] # "N"
     THEN [ok |-> FALSE, n |-> 0]
     ELSE IF \E i \in 1..Len(digits) : digits[i] = "N" THEN [ok |-> FALSE, n |-> 0]
     ELSE [ok |-> TRUE,
           n |-> IF negative THEN 0 - DecimalValue(digits) ELSE DecimalValue(digits)]

\* What ExtractIssueInfo returns: projectName, issueNumber and the error
\* ("" for nil).
IssueInfo(project, number, err) == [project |-> project, number |-> number, err |-> err]

\* ExtractIssueInfo without the cross-repository format.
ExtractIssueInfoSameRepo(branchName) ==
  LET parts == SplitDash(branchName)
  IN IF Len(parts) < 2 THEN IssueInfo(<<>>, 0, "invalid branch name format")
     ELSE IF Atoi(parts[1]).ok THEN IssueInfo(<<>>, Atoi(parts[1]).n, "")
     ELSE IssueInfo(<<>>, 0, "invalid branch name format")

\* ExtractIssueInfo
ExtractIssueInfo(branchName) ==
  LET parts == SplitDash(branchName)
  IN IF Len(parts) < 2 THEN IssueInfo(<<>>, 0, "invalid branch name format")
     ELSE IF Atoi(parts[1]).ok THEN IssueInfo(<<>>, Atoi(parts[1]).n, "")
     ELSE IF Len(parts) < 3 THEN IssueInfo(<<>>, 0, "invalid branch name format")
     ELSE IF ~Atoi(parts[2]).ok THEN IssueInfo(<<>>, 0, "invalid branch name format")
     ELSE IssueInfo(parts[1], Atoi(parts[2]).n, "")

\* ExtractIssueNumber: ExtractIssueInfo without the project name.
ExtractIssueNumber(branchName) ==
  [number |-> ExtractIssueInfo(branchName).number, err |-> ExtractIssueInfo(branchName).err]

\* The runes of the strings handed to TruncateAndDashCase: "a" a lower-case
\* letter, "A" an upper-case letter, "1" a digit, "!" and "-" characters
\* that are neither, [e] the lower-case letter U+00E9, which UTF-8 encodes
\* in the two bytes c3 a9.
IsLetter(r) == r \in {"a", "A", "[e]"}
IsDigit(r) == r = "1"
IsUpper(r) == r = "A"
IsLower(r) == r \in {"a", "[e]"}
ToLower(r) == IF r = "A" THEN "a" ELSE r

\* result.WriteRune(r): the bytes of r in UTF-8.
RuneBytes(r) == IF r = "[e]" THEN <<"c3", "a9">> ELSE <<r>>

\* The body of the loop of TruncateAndDashCase for runes[i], in state st
\* (the bytes written to result, and lastWasDash).
DashCaseStep(runes, i, st) ==
  LET r == runes[i]
      prevChar == runes[i - 1]
      hasNextLetter == i < Len(runes) /\ IsLetter(runes[i + 1])
      nextIsUpper == hasNextLetter /\ IsUpper(runes[i + 1])
      nextIsLower == hasNextLetter /\ IsLower(runes[i + 1])
      needsDash ==
        /\ i > 1 /\ ~st.lastWasDash
        /\ IsLetter(prevChar)
        /\ IF IsUpper(prevChar) /\ nextIsUpper THEN FALSE
           ELSE IF IsUpper(prevChar) /\ nextIsLower THEN TRUE
           ELSE ~IsUpper(prevChar)
  IN IF ~IsLetter(r) /\ ~IsDigit(r)
     THEN IF ~st.lastWasDash /\ i > 1
          THEN [result |-> st.result \o <<"-">>, lastWasDash |-> TRUE]
          ELSE st
     ELSE IF IsUpper(r)
     THEN [result |-> st.result \o (IF needsDash THEN <<"-">> ELSE <<>>)
                        \o RuneBytes(ToLower(r)),
           lastWasDash |-> FALSE]
     ELSE [result |-> st.result \o RuneBytes(ToLower(r)), lastWasDash |-> FALSE]

\* The loop over runes[1..n].
RECURSIVE DashCaseLoop(_, _)
DashCaseLoop(runes, n) ==
  IF n = 0 THEN [result |-> <<>>, lastWasDash |-> FALSE]
  ELSE DashCaseStep(runes, n, DashCaseLoop(runes, n - 1))

\* "Remove trailing dash if present"
RemoveTrailingDash(resultStr) ==
  IF Len(resultStr) > 0 /\ resultStr[Len(resultStr)] = "-"
  THEN SubSeq(resultStr, 1, Len(resultStr) - 1)
  ELSE resultStr

\* TruncateAndDashCase(s, maxLen) for maxLen >= 0; the result is cut after
\* maxLen bytes.
TruncateAndDashCase(s, maxLen) ==
  LET resultStr == RemoveTrailingDash(DashCaseLoop(s, Len(s)).result)
  IN IF Len(resultStr) > maxLen THEN SubSeq(resultStr, 1, maxLen) ELSE resultStr

\* --------------------------------------------------------------- PollRun
\* The state of a PollRun call: pc is "retrieve" before client.RetrieveRun,
\* "sleep" inside time.Sleep and "done" once the function returned;
\* attempts counts the RetrieveRun calls (it stops counting at MaxPolls, the
\* loop does not); status is the run.Status last retrieved; err is the
\* error returned ("" for nil).
PollState(p, attempts, status, err) ==
  [pc |-> p, attempts |-> attempts, status |-> status, err |-> err]

\* The statuses of a run that is not over, and those PollRun returns on.
PendingStatuses == {"queued", "in_progress"}
FailedStatuses == {"failed", "cancelled", "expired"}
RunStatuses == PendingStatuses \cup FailedStatuses \cup {"completed"}

\* The loop body of PollRun once client.RetrieveRun came back with answer
\* ("error", or the status of the run).
PollHandle(st, answer) ==
  LET n == Min2(st.attempts + 1, MaxPolls)
  IN IF answer = "error" THEN PollState("done", n, st.status, "retrieve failed")
     ELSE IF answer = "completed" THEN PollState("done", n, answer, "")
     ELSE IF answer \in FailedStatuses
     THEN PollState("done", n, answer, "run failed with status")
     ELSE PollState("sleep", n, answer, "")

\* ----------------------------------------------------- CreateMergeRequest
\* strings.Contains(s, substr)
Contains(s, substr) ==
  \E i \in 0..(Len(s) - Len(substr)) : SubSeq(s, i + 1, i + Len(substr)) = substr

\* What a CreateMergeRequest call works with: params.CurrentBranch, whether
\* params.IssueProvider and params.CrossRepoIssueRef are set, and what the
\* calls it makes answer: GetOpenRequests (an error, or the open requests),
\* and whether Push, GetIssue and the provider's CreateMergeRequest fail.
NoFlowEnv ==
  [branch |-> <<>>, issueProvider |-> FALSE, crossRepoIssueRef |-> FALSE,
   open |-> [err |-> FALSE, requests |-> <<>>],
   pushFails |-> FALSE, issueFails |-> FALSE, createFails |-> FALSE]

\* The state of a CreateMergeRequest call: pc is the step it is about to
\* take ("check", "push", "issue", "create") or "done" once it returned;
\* calls are the calls it made, in order; err is the error returned ("" for
\* nil) and request says whether it returned a request.
FlowState(p, env, sent, err, request) ==
  [pc |-> p, env |-> env, calls |-> sent, err |-> err, request |-> request]

\* A call of the flow: the receiver and the method.
FlowCall(to, op) == [to |-> to, op |-> op]

\* The check for open requests that ends the flow when it fails.
FlowCheckStrict(st) ==
  LET sent == Append(st.calls, FlowCall("Provider", "GetOpenRequests"))
      open == st.env.open
  IN IF open.err
     THEN FlowState("done", st.env, sent, "failed to check for existing requests", FALSE)
     ELSE IF \E i \in 1..Len(open.requests) :
               /\ open.requests[i].Title # <<>>
               /\ Contains(open.requests[i].Title, st.env.branch)
     THEN FlowState("done", st.env, sent,
                    "a merge request already exists for this branch", FALSE)
     ELSE FlowState("push", st.env, sent, "", FALSE)

\* "Check if there's already an open request for this issue": an error of
\* GetOpenRequests is logged, a request with a title that holds the branch
\* name ends the flow.
FlowCheck(st) ==
  LET sent == Append(st.calls, FlowCall("Provider", "GetOpenRequests"))
      open == st.env.open
  IN IF ~open.err /\ \E i \in 1..Len(open.requests) :
                       /\ open.requests[i].Title # <<>>
                       /\ Contains(open.requests[i].Title, st.env.branch)
     THEN FlowState("done", st.env, sent,
                    "a merge request already exists for this branch", FALSE)
     ELSE FlowState("push", st.env, sent, "", FALSE)

\* "Push current branch to remote"
FlowPush(st) ==
  LET sent == Append(st.calls, FlowCall("GitRepo", "Push"))
  IN IF st.env.pushFails THEN FlowState("done", st.env, sent, "failed to push", FALSE)
     ELSE FlowState("issue", st.env, sent, "", FALSE)

\* "Get issue details - use IssueProvider if provided (cross-repo),
\* otherwise use Provider (same-repo)"
FlowGetIssue(st) ==
  LET issueProvider == IF st.env.issueProvider THEN "IssueProvider" ELSE "Provider"
      sent == Append(st.calls, FlowCall(issueProvider, "GetIssue"))
  IN IF st.env.issueFails
     THEN FlowState("done", st.env, sent, "failed to get issue details", FALSE)
     ELSE FlowState("create", st.env, sent, "", FALSE)

\* "Create request": the request is returned whether or not the browser
\* opens.
FlowCreate(st) ==
  LET sent == Append(st.calls, FlowCall("Provider", "CreateMergeRequest"))
  IN IF st.env.createFails
     THEN FlowState("done", st.env, sent, "failed to create request", FALSE)
     ELSE FlowState("done", st.env, sent, "", TRUE)


\* ------------------------------------------------------------ diff inputs
\* The atoms free-form diffs are made of.
DiffAtoms == {NL, " ", "x", "G", "P"}

\* Every string of at most n atoms.
StringsUpTo(n) == UNION {[1..k -> DiffAtoms] : k \in 0..n}

\* The kinds of line a run is made of: a content line, a blank line, a
\* "diff --git" header and a "+++ b/x" header.
RunLines == {<<"x">>, <<>>, <<"G">>, <<"P", "x">>}

\* The lengths (in lines) of a run: around both thresholds of ChunkDiff.
RunSizes == {1, minLinesPerChunk - 1, minLinesPerChunk,
             maxLinesPerChunk, maxLinesPerChunk + MaxOver}

\* n copies of line, each followed by a newline.
Run(line, n) ==
  LET w == Len(line) + 1
  IN [i \in 1..(n * w) |-> IF i % w = 0 THEN NL ELSE line[i % w]]

\* Large diffs: at most two runs and a last line that has no newline (a
\* blank last line is a diff that ends in a newline).
LargeDiffs ==
  {Run(l1, n1) \o Run(l2, n2) \o l3 :
     l1 \in RunLines, n1 \in RunSizes \cup {0},
     l2 \in RunLines, n2 \in RunSizes, l3 \in RunLines}

ChunkInputs == StringsUpTo(MaxSmallLen) \cup LargeDiffs

\* No GenerateEmbeddings, Search or CosineSimilarity call of its own: the
\* values these variables keep in the specifications that are not about them.
NoEmbedding == embedding = EmbedState("none", 0, <<>>, <<>>, <<>>, "", FALSE)
NoSearch ==
  /\ vectorStore = <<>>
  /\ searchQuery = <<>>
  /\ searchTopK = 0
  /\ searchOut = [panic |-> FALSE, results |-> <<>>]
NoCosine ==
  /\ cosV1 = <<>>
  /\ cosV2 = <<>>
  /\ cosOut = FloatZero
NoUtil ==
  /\ utilArg = [s |-> <<>>, maxLen |-> 0]
  /\ utilOut = [number |-> 0, err |-> "", text |-> <<>>]
NoPoll == poll = PollState("none", 0, "none", "")
NoFlow == flow = FlowState("none", NoFlowEnv, <<>>, "", FALSE)
\* None of the calls above, and no description request.
NoTools == served = NoEnv /\ NoUtil /\ NoPoll /\ NoFlow

\* ----------------------------------------------- specification: chunking
\* chunks := ChunkDiff(diff) on every input diff.
ChunkStart ==
  /\ pc = "start"
  /\ NoEmbedding /\ NoSearch /\ NoCosine /\ NoTools
  /\ diff \in ChunkInputs
  /\ chunks = <<>>
  /\ kind = "none"
  /\ forceRAG = "nil"
  /\ out = NoOutcome
  /\ cli = NoCommandLine
  /\ provider = <<>>
  /\ runErr = ""

CallChunkDiff ==
  /\ pc = "start"
  /\ chunks' = ChunkDiff(diff)
  /\ pc' = "done"
  /\ UNCHANGED <<restVars, ragVars, diff, kind, forceRAG, out, cliVars>>

ChunkNext == CallChunkDiff

SpecChunk == ChunkStart /\ [][ChunkNext]_vars

\* ------------------------------------ specification: description requests
\* The embeddings the endpoint may return.
EmbeddingValues == {<<1, 0>>, <<0, 1>>}

\* The ways the embedding endpoint may behave on one request.
EmbedBehaviours ==
  {[count |-> "err", values |-> << <<1, 0>> >>]}
  \cup {[count |-> c, values |-> v] :
          c \in {"short", "exact", "long"}, v \in [1..2 -> EmbeddingValues]}

\* The answers to the query-embedding request.
QueryResponses ==
  {[err |-> TRUE, Data |-> <<>>], [err |-> FALSE, Data |-> <<>>]}
  \cup {[err |-> FALSE, Data |-> <<v>>] : v \in EmbeddingValues}

\* The contents a completion may have: plain text, and a "## " title line
\* (the current title, or a new one) followed by a body; then a title and a
\* body of two words with white space around them, a text that holds "## "
\* but not at its start, and a title line alone.
Completions ==
  {<<"x">>, <<"H", "x", NL, NL, "x">>, <<"H", "y", NL, "x">>,
   <<"H", " ", "x", " ", "y", " ", NL, NL, "x", NL, "y", NL>>,
   <<" ", "H", "x", NL, "x", " ">>, <<"H", "y">>}

\* The answers to the chat-completion request.
ChatResponses ==
  {[err |-> TRUE, Choices |-> <<>>], [err |-> FALSE, Choices |-> <<>>]}
  \cup {[err |-> FALSE, Choices |-> <<c>>] : c \in Completions}

\* The behaviours of the embedding endpoint on a request of a diff of many
\* chunks: as above, with an embedding of its own for every input of a
\* request.
ManyEmbedBehaviours ==
  {[count |-> "err", values |-> << <<1, 0>> >>]}
  \cup {[count |-> c, values |-> [j \in 1..(batchSize + 1) |-> <<1, j - 1>>]] :
          c \in {"short", "exact", "long"}}

\* The answers to the query-embedding and the chat-completion request of a
\* diff of many chunks.
ManyQueryResponses ==
  {[err |-> TRUE, Data |-> <<>>], [err |-> FALSE, Data |-> << <<1, 0>> >>]}
ManyChatResponses ==
  {[err |-> TRUE, Choices |-> <<>>], [err |-> FALSE, Choices |-> <<>>],
   [err |-> FALSE, Choices |-> << <<"x">> >>]}

\* What the endpoints answer during one request on diff d: embed[b] is the
\* behaviour of the embedding endpoint on the request of the b-th batch.
Envs(d) ==
  LET n == NumBatches(Len(ChunkDiff(d)))
  IN IF n <= 1
     THEN [embed : [1..n -> EmbedBehaviours], query : QueryResponses, chat : ChatResponses]
     ELSE [embed : [1..n -> ManyEmbedBehaviours],
           query : ManyQueryResponses, chat : ManyChatResponses]

\* a atoms "K" followed by b bytes "x": a long diff of one line.
Pad(a, b) == [i \in 1..(a + b) |-> IF i <= a THEN "K" ELSE "x"]

\* A diff of n files, each a "diff --git" line followed by blank lines up
\* to minLinesPerChunk lines: ChunkDiff cuts it into n chunks.
ManyFiles(n) ==
  [i \in 1..(n * (minLinesPerChunk + 1)) |->
     IF i % (minLinesPerChunk + 1) = 1 THEN "G" ELSE NL]

\* The diffs handed to the generators: around the size threshold, tiny
\* ones, a white-space one, one with a file path, one of two chunks and one
\* of one chunk more than a batch holds.
DescInputs ==
  {Pad(a, b) : a \in 0..MaxBig, b \in 0..MaxPad}
  \cup {<<" ">>, <<"P", "x", NL, "x">>, Run(<<"x">>, minLinesPerChunk) \o <<"G">>,
        ManyFiles(batchSize + 1)}

DescStart ==
  /\ pc = "start"
  /\ NoEmbedding /\ NoSearch /\ NoCosine /\ NoTools
  /\ diff \in DescInputs
  /\ chunks = <<>>
  /\ kind \in {"MR", "issue"}
  /\ forceRAG \in {"nil", "true", "false"}
  /\ out = NoOutcome
  /\ cli = NoCommandLine
  /\ provider = <<>>
  /\ runErr = ""

\* GenerateMRDescriptionWithOptions(ctx, client, diff, forceRAG)
GenerateMRDescriptionWithOptions ==
  /\ pc = "start"
  /\ kind = "MR"
  /\ \E env \in Envs(diff) :
       /\ served' = env
       /\ out' \in GenerateDescriptionWithOptions("MR", diff, forceRAG, env)
  /\ pc' = "done"
  /\ UNCHANGED <<toolVars, ragVars, diff, chunks, kind, forceRAG, cliVars>>

\* GenerateIssueDescriptionWithOptions(ctx, client, diff, currentTitle, forceRAG)
GenerateIssueDescriptionWithOptions ==
  /\ pc = "start"
  /\ kind = "issue"
  /\ \E env \in Envs(diff) :
       /\ served' = env
       /\ out' \in GenerateDescriptionWithOptions("issue", diff, forceRAG, env)
  /\ pc' = "done"
  /\ UNCHANGED <<toolVars, ragVars, diff, chunks, kind, forceRAG, cliVars>>

DescNext == GenerateMRDescriptionWithOptions \/ GenerateIssueDescriptionWithOptions

SpecDesc == DescStart /\ [][DescNext]_vars

\* --------------------------------------------- specification: tix setdesc
\* The *bool that setdescCmd.Flags().Bool("use-rag", false, ...) returns, as
\* RunE reads it after the command line was parsed: it points at the flag's
\* value, which is the default false when the flag is absent, NoOptDefVal
\* "true" for a bare --use-rag, and the given value otherwise.
UseRAGFlag(useRag) ==
  IF useRag \in {"bare", "true"} THEN "true" ELSE "false"

\* The error RunE returns when the generator's outcome o is a failure ("" when
\* it is none): every generator error holds "failed to generate", which RunE
\* rewrites.
GenerateFailure(k, o) ==
  IF o.panic THEN "panic"
  ELSE IF o.err = "" THEN ""
  ELSE IF k = "MR" THEN "failed to generate description with OpenAI"
  ELSE "failed to generate issue description with OpenAI"

\* The rest of generateAndUpdateMRDescription after the description came
\* back: the error it returns (as RunE rewrites it) and the provider calls it
\* sends, given the operator's answer and whether the update fails.
UpdateMR(confirm, updateFails) ==
  IF confirm = "cancel"
  THEN [err |-> "cancelled updating merge request description", sent |-> <<>>]
  ELSE IF confirm = "no" THEN [err |-> "", sent |-> <<>>]
  ELSE IF updateFails
  THEN [err |-> "generated description but failed to update merge request",
        sent |-> <<"UpdateRequestDescription">>]
  ELSE [err |-> "", sent |-> <<"UpdateRequestDescription">>]

\* The rest of generateAndUpdateIssueDescription after the description o came
\* back; answers.title and answers.desc are the operator's answers to the
\* two confirmations, fails.desc and fails.title say which update fails.
UpdateIssue(o, answers, fails) ==
  LET askTitle == o.title # <<>> /\ o.title # CurrentTitle
      shouldUpdateTitle == askTitle /\ answers.title = "yes"
  IN IF askTitle /\ answers.title = "cancel"
     THEN [err |-> "cancelled updating issue title", sent |-> <<>>]
     ELSE IF answers.desc = "cancel"
     THEN [err |-> "cancelled updating issue description", sent |-> <<>>]
     ELSE IF answers.desc = "no" THEN [err |-> "", sent |-> <<>>]
     ELSE IF fails.desc
     THEN [err |-> "generated description but failed to update issue",
           sent |-> <<"UpdateIssueDescription">>]
     ELSE IF shouldUpdateTitle /\ fails.title
     THEN [err |-> "generated description but failed to update issue",
           sent |-> <<"UpdateIssueDescription", "UpdateIssueTitle">>]
     ELSE IF shouldUpdateTitle
     THEN [err |-> "", sent |-> <<"UpdateIssueDescription", "UpdateIssueTitle">>]
     ELSE [err |-> "", sent |-> <<"UpdateIssueDescription">>]

Answers == {"yes", "no", "cancel"}

\* The diffs of the merge request setdesc works on: a tiny one and one
\* above the size threshold.
SetdescInputs == {<<"x">>, Pad(MaxBig, MaxPad)}

\* The state when RunE starts, the flags parsed and the merge request found.
SetdescStart ==
  /\ pc = "setdesc"
  /\ NoEmbedding /\ NoSearch /\ NoCosine /\ NoTools
  /\ diff \in SetdescInputs
  /\ chunks = <<>>
  /\ kind = "none"
  /\ forceRAG = "nil"
  /\ out = NoOutcome
  /\ cli \in [useRag : {"absent", "bare", "true", "false"},
              onlyIssue : BOOLEAN, onlyMR : BOOLEAN]
  /\ provider = <<>>
  /\ runErr = ""

\* RunE rejects --only-issue together with --only-mr/--only-pr.
SetdescRejectFlags ==
  /\ pc = "setdesc"
  /\ cli.onlyIssue /\ cli.onlyMR
  /\ runErr' = "cannot use both --only-issue and --only-mr/--only-pr flags together"
  /\ pc' = "done"
  /\ UNCHANGED <<restVars, ragVars, diff, chunks, kind, forceRAG, out, cli, provider>>

\* RunE with --only-issue: the merge request is left alone.
SetdescSkipMR ==
  /\ pc = "setdesc"
  /\ cli.onlyIssue /\ ~cli.onlyMR
  /\ pc' = "setdescIssue"
  /\ UNCHANGED <<restVars, ragVars, diff, chunks, kind, forceRAG, out, cliVars>>

\* RunE, generateAndUpdateMRDescription: the description is generated with
\* forceRAG = useRAG; a failure ends RunE, a description is shown to the
\* operator.
SetdescMR ==
  /\ pc = "setdesc"
  /\ ~cli.onlyIssue
  /\ \E env \in Envs(diff) :
       \E o \in GenerateDescriptionWithOptions("MR", diff, UseRAGFlag(cli.useRag), env) :
          /\ out' = o
          /\ runErr' = GenerateFailure("MR", o)
          /\ pc' = IF GenerateFailure("MR", o) # "" THEN "done" ELSE "confirmMR"
  /\ kind' = "MR"
  /\ forceRAG' = UseRAGFlag(cli.useRag)
  /\ UNCHANGED <<restVars, ragVars, diff, chunks, cli, provider>>

\* RunE, generateAndUpdateMRDescription: the operator answers, the merge
\* request is updated; RunE goes on to the issue unless --only-mr/--only-pr.
SetdescConfirmMR ==
  /\ pc = "confirmMR"
  /\ \E confirm \in Answers, updateFails \in BOOLEAN :
       LET u == UpdateMR(confirm, updateFails)
       IN /\ provider' = provider \o u.sent
          /\ runErr' = u.err
          /\ pc' = IF u.err # "" \/ cli.onlyMR THEN "done" ELSE "setdescIssue"
  /\ UNCHANGED <<restVars, ragVars, diff, chunks, kind, forceRAG, out, cli>>

\* RunE, generateAndUpdateIssueDescription: GetIssueDetails fails.
SetdescIssueUnavailable ==
  /\ pc = "setdescIssue"
  /\ provider' = Append(provider, "GetIssueDetails")
  /\ runErr' = "failed to get original issue details"
  /\ pc' = "done"
  /\ UNCHANGED <<restVars, ragVars, diff, chunks, kind, forceRAG, out, cli>>

\* RunE, generateAndUpdateIssueDescription: the issue is fetched and the
\* description is generated with forceRAG = useRAG.
SetdescIssue ==
  /\ pc = "setdescIssue"
  /\ \E env \in Envs(diff) :
       \E o \in GenerateDescriptionWithOptions("issue", diff, UseRAGFlag(cli.useRag), env) :
          /\ out' = o
          /\ runErr' = GenerateFailure("issue", o)
          /\ pc' = IF GenerateFailure("issue", o) # "" THEN "done" ELSE "confirmIssue"
  /\ provider' = Append(provider, "GetIssueDetails")
  /\ kind' = "issue"
  /\ forceRAG' = UseRAGFlag(cli.useRag)
  /\ UNCHANGED <<restVars, ragVars, diff, chunks, cli>>

\* RunE, generateAndUpdateIssueDescription: the operator answers, the issue
\* is updated.
SetdescConfirmIssue ==
  /\ pc = "confirmIssue"
  /\ \E answers \in [title : Answers, desc : Answers],
        fails \in [title : BOOLEAN, desc : BOOLEAN] :
       LET u == UpdateIssue(out, answers, fails)
       IN /\ provider' = provider \o u.sent
          /\ runErr' = u.err
  /\ pc' = "done"
  /\ UNCHANGED <<restVars, ragVars, diff, chunks, kind, forceRAG, out, cli>>

SetdescNext ==
  \/ SetdescRejectFlags
  \/ SetdescSkipMR
  \/ SetdescMR
  \/ SetdescConfirmMR
  \/ SetdescIssueUnavailable
  \/ SetdescIssue
  \/ SetdescConfirmIssue

SpecSetdesc == SetdescStart /\ [][SetdescNext]_vars

\* --------------------------------------- specification: GenerateEmbeddings
\* The chunk lists handed to GenerateEmbeddings: none, one, two, and full
\* batches with and without one chunk more.
EmbedSizes ==
  {0, 1, 2} \cup {b * batchSize + d : b \in 1..MaxBatches, d \in {0, 1}}

\* The i-th chunk (0-based) of such a list: one to three lines.
EmbedChunk(i) == MkChunk(Run(<<"x">>, 1 + (i % 3)), i, <<>>, 1 + (i % 3))

EmbedInputs == {[i \in 1..n |-> EmbedChunk(i - 1)] : n \in EmbedSizes}

EmbedStart ==
  /\ pc = "start"
  /\ chunks \in EmbedInputs
  /\ NoEmbedding /\ NoSearch /\ NoCosine /\ NoTools
  /\ diff = <<>>
  /\ kind = "none"
  /\ forceRAG = "nil"
  /\ out = NoOutcome
  /\ cli = NoCommandLine
  /\ provider = <<>>
  /\ runErr = ""

\* GenerateEmbeddings(ctx, client, chunks) is called.
CallGenerateEmbeddings ==
  /\ pc = "start"
  /\ embedding' = EmbedEntry(chunks)
  /\ pc' = IF embedding'.pc = "done" THEN "done" ELSE "run"
  /\ UNCHANGED <<restVars, searchVars, cosVars, diff, chunks, kind, forceRAG, out, cliVars>>

\* The head of the batch loop: the next request goes out, or the function
\* returns its vectors.
EmbedRequest ==
  /\ pc = "run"
  /\ embedding.pc = "loop"
  /\ embedding' = EmbedIssue(chunks, embedding)
  /\ pc' = IF embedding'.pc = "done" THEN "done" ELSE "run"
  /\ UNCHANGED <<restVars, searchVars, cosVars, diff, chunks, kind, forceRAG, out, cliVars>>

\* client.CreateEmbeddings comes back, with whatever the endpoint answered.
EmbedResponse ==
  /\ pc = "run"
  /\ embedding.pc = "wait"
  /\ \E r \in EmbedBehaviours :
       embedding' = EmbedHandle(chunks, embedding,
                      EmbeddingResponse(r, Len(Batch(chunks, embedding.i))))
  /\ pc' = IF embedding'.pc = "done" THEN "done" ELSE "run"
  /\ UNCHANGED <<restVars, searchVars, cosVars, diff, chunks, kind, forceRAG, out, cliVars>>

EmbedNext == CallGenerateEmbeddings \/ EmbedRequest \/ EmbedResponse

SpecEmbed == EmbedStart /\ [][EmbedNext]_vars

\* ------------------------------------------ specification: VectorStore.Search
\* The embeddings stored: an axis, a diagonal, an opposite, a zero vector
\* and an empty one (the three-component query is of another length).
SearchVectors == {<<1, 0>>, <<1, 1>>, <<0 - 1, 0>>, <<0, 0>>, <<>>}

\* The store whose i-th vector has embedding es[i] and refers to chunk i - 1.
StoreOf(es) ==
  [i \in 1..Len(es) |-> [Chunk |-> MkChunk(<<"x", NL>>, i - 1, <<>>, 1), Embedding |-> es[i]]]

\* Stores of at most MaxStore vectors.
SmallStores == {StoreOf(es) : es \in UNION {[1..n -> SearchVectors] : n \in 0..MaxStore}}

\* The store of TestVectorStoreSearch, [1,0,0], [0,1,0], [0.5,0.5,0], scaled
\* by two.
TestStore == StoreOf(<< <<2, 0, 0>>, <<0, 2, 0>>, <<1, 1, 0>> >>)

\* Stores of one vector more than sort.Slice sorts by insertion: twelve
\* directions, and the s-th of them once more at the end.
LargeStores ==
  {StoreOf([i \in 1..(maxInsertion + 1) |->
              IF i <= maxInsertion THEN <<1, i - 1>> ELSE <<1, s>>]) : s \in {0, 5, 11}}

\* The queries: two axes, a diagonal, a zero vector, an empty one, and that
\* of TestVectorStoreSearch, [0.9,0.1,0], scaled by ten.
SearchQueries == {<<1, 0>>, <<0, 1>>, <<1, 1>>, <<0, 0>>, <<>>, <<9, 1, 0>>}

\* The queries on the large stores: those that leave few stored vectors
\* with equal similarity.
LargeQueries == {<<1, 0>>, <<0, 1>>, <<1, 1>>}

SearchStart ==
  /\ pc = "start"
  /\ \/ /\ vectorStore \in SmallStores \cup {TestStore}
        /\ searchQuery \in SearchQueries
     \/ /\ vectorStore \in LargeStores
        /\ searchQuery \in LargeQueries
  /\ searchTopK \in (0 - 1)..(MaxStore + 1) \cup {maxInsertion, maxInsertion + 2}
  /\ searchOut = [panic |-> FALSE, results |-> <<>>]
  /\ NoEmbedding /\ NoCosine /\ NoTools
  /\ diff = <<>>
  /\ chunks = <<>>
  /\ kind = "Search"
  /\ forceRAG = "nil"
  /\ out = NoOutcome
  /\ cli = NoCommandLine
  /\ provider = <<>>
  /\ runErr = ""

\* vs.Search(queryEmbedding, topK)
CallSearch ==
  /\ pc = "start"
  /\ kind = "Search"
  /\ searchOut' \in SearchOutcomes(vectorStore, searchQuery, searchTopK)
  /\ pc' = "done"
  /\ UNCHANGED <<restVars, vectorStore, searchQuery, searchTopK, embedVars, cosVars,
                 diff, chunks, kind, forceRAG, out, cliVars>>

SearchNext == CallSearch

SpecSearch == SearchStart /\ [][SearchNext]_vars

\* --------------------------------------- specification: CosineSimilarity
\* The components of the vectors handed to CosineSimilarity.
CosComponents == {0 - 2, 0 - 1, 0, 1, 2, 5}

\* Vectors of at most MaxDim components.
CosInputs == UNION {[1..n -> CosComponents] : n \in 0..MaxDim}

CosStart ==
  /\ pc = "start"
  /\ cosV1 \in CosInputs
  /\ cosV2 \in CosInputs
  /\ cosOut = FloatZero
  /\ NoEmbedding /\ NoSearch /\ NoTools
  /\ diff = <<>>
  /\ chunks = <<>>
  /\ kind = "CosineSimilarity"
  /\ forceRAG = "nil"
  /\ out = NoOutcome
  /\ cli = NoCommandLine
  /\ provider = <<>>
  /\ runErr = ""

\* CosineSimilarity(v1, v2)
CallCosineSimilarity ==
  /\ pc = "start"
  /\ kind = "CosineSimilarity"
  /\ cosOut' = CosineSimilarity(cosV1, cosV2)
  /\ pc' = "done"
  /\ UNCHANGED <<restVars, cosV1, cosV2, embedVars, searchVars,
                 diff, chunks, kind, forceRAG, out, cliVars>>

CosNext == CallCosineSimilarity

SpecCosine == CosStart /\ [][CosNext]_vars

\* ------------------------- specification: the similarity functions together
\* A call of CosineSimilarity or a call of Search.
VectorStart == CosStart \/ SearchStart

VectorNext == CallCosineSimilarity \/ CallSearch

SpecVector == VectorStart /\ [][VectorNext]_vars

\* ---------------------------------------------------- claims on ChunkDiff
\* The Content of all chunks, concatenated in index order.
RECURSIVE ConcatContents(_)
ConcatContents(cs) ==
  IF cs = <<>> THEN <<>> ELSE ConcatContents(Front(cs)) \o Last(cs).Content

\* The number of newline bytes of s.
CountNL(s) == Cardinality({i \in 1..Len(s) : s[i] = NL})

\* The lines of s that are not white space only, in order.
ContentLines(s) == SelectSeq(Split(s), TrimSpaceNonEmpty)

\* Some buffer of the call was dropped: the chunks hold fewer lines than the diff.
SomeBufferDropped == CountNL(ConcatContents(chunks)) < Len(Split(diff))

\* C1 (as claimed): the chunks' Content, concatenated in index order, is
\* exactly the diff, byte for byte.
C1_Reconstruction ==
  pc = "done" => ConcatContents(chunks) = diff

\* C1 (amended): the concatenation is the diff followed by one newline when
\* no buffer was dropped; in every case it has no more lines than the diff and
\* the lines that are not white space only are the diff's, none dropped,
\* added or reordered.
C1_ReconstructionAmended ==
  pc = "done" =>
    /\ ~SomeBufferDropped => ConcatContents(chunks) = diff \o <<NL>>
    /\ CountNL(ConcatContents(chunks)) <= Len(Split(diff))
    /\ ContentLines(ConcatContents(chunks)) = ContentLines(diff)

\* C1 witness: several chunks came back, and a white-space buffer was dropped.
C1_Witness ==
  pc = "done" /\ Len(chunks) >= 2 /\ SomeBufferDropped

\* C2: every chunk, the last one included, holds at most maxLinesPerChunk
\* lines, by its Lines field and by the newlines of its Content.
C2_ChunkBounded ==
  pc = "done" =>
    \A i \in 1..Len(chunks) :
      /\ chunks[i].Lines <= maxLinesPerChunk
      /\ CountNL(chunks[i].Content) <= maxLinesPerChunk

\* C2 witness: a diff of more than maxLinesPerChunk lines was cut at the maximum.
C2_Witness ==
  /\ pc = "done"
  /\ Len(Split(diff)) > maxLinesPerChunk
  /\ \E i \in 1..Len(chunks) : chunks[i].Lines = maxLinesPerChunk

\* C3: no returned chunk has white-space-only Content.
C3_NoBlankChunk ==
  pc = "done" => \A i \in 1..Len(chunks) : TrimSpaceNonEmpty(chunks[i].Content)

\* C3 witness: chunks came back although a white-space-only buffer was met.
C3_Witness ==
  pc = "done" /\ Len(chunks) >= 1 /\ SomeBufferDropped

\* C4 (as claimed): a diff of fewer than minLinesPerChunk lines yields exactly
\* one chunk, which holds every line of the diff.
C4_SmallDiffOneChunk ==
  (pc = "done" /\ Len(Split(diff)) < minLinesPerChunk) =>
    /\ Len(chunks) = 1
    /\ chunks[1].Content = diff \o <<NL>>
    /\ chunks[1].Lines = Len(Split(diff))

\* C4 (amended): a diff of fewer than minLinesPerChunk lines that is not
\* white space only yields exactly one chunk, which holds every line of the
\* diff, however many "diff --git" headers it has.
C4_SmallDiffOneChunkAmended ==
  (pc = "done" /\ Len(Split(diff)) < minLinesPerChunk /\ TrimSpaceNonEmpty(diff)) =>
    /\ Len(chunks) = 1
    /\ chunks[1].Content = diff \o <<NL>>
    /\ chunks[1].Lines = Len(Split(diff))

\* C4 witness: a small diff with several file headers was chunked.
C4_Witness ==
  /\ pc = "done"
  /\ Len(Split(diff)) < minLinesPerChunk
  /\ Cardinality({i \in 1..Len(diff) : diff[i] = "G"}) >= 2
  /\ Len(chunks) = 1

\* C5: the empty diff yields no chunk.
C5_EmptyDiff ==
  (pc = "done" /\ diff = <<>>) => chunks = <<>>

\* C5 witness: ChunkDiff was called on the empty diff.
C5_Witness ==
  pc = "done" /\ diff = <<>> /\ Len(chunks) = 0

\* C6: the chunk at position i (0-based) of the result has Index i.
C6_ContiguousIndex ==
  pc = "done" => \A i \in 1..Len(chunks) : chunks[i].Index = i - 1

\* C6 witness: a white-space buffer was dropped between two emitted chunks
\* (the first and the last line of the diff have content, so the dropped
\* buffer is neither the first nor the last).
C6_Witness ==
  /\ pc = "done"
  /\ Len(chunks) >= 2
  /\ SomeBufferDropped
  /\ TrimSpaceNonEmpty(Head(Split(diff)))
  /\ TrimSpaceNonEmpty(Last(Split(diff)))

\* ----------------------------------- claims on the description generators
\* The diff is large by the auto-detection rule: at least 4 bytes for each
\* of the smallDiffThreshold estimated tokens.
LargeDiff == StrLen(diff) >= 4 * smallDiffThreshold

\* C7: with an override present, the RAG path is taken iff the override is
\* true, whatever the size of the diff, for both kinds of description.
C7_ForcedOverride ==
  (pc = "done" /\ forceRAG # "nil") => (out.path = "rag" <=> forceRAG = "true")

\* C7 witness: an override of true sent a tiny diff down the RAG path, which
\* chunked it and reached the completion.
C7_Witness ==
  /\ pc = "done"
  /\ forceRAG = "true"
  /\ StrLen(diff) = 1
  /\ out.path = "rag"
  /\ out.chunked
  /\ out.err = ""

C9_FlagTriState ==
  (cli.useRag = "absent" /\ out.path # "none") =>
    /\ forceRAG = "nil"
    /\ out.path = "rag" <=> LargeDiff

\* C10: on the direct path the diff is not chunked, no embedding request is
\* sent, and exactly one chat completion is asked for, whose prompt holds
\* the whole diff.
C10_DirectPath ==
  (pc = "done" /\ out.path = "direct") =>
    /\ ~out.chunked
    /\ Len(out.calls) = 1
    /\ out.calls[1].api = "chat"
    /\ out.calls[1].prompt.diffContent = diff
    /\ \A i \in 1..Len(out.calls) : out.calls[i].api # "embeddings"

\* C10 witness: a diff of several lines went down the direct path and a
\* description came back.
C10_Witness ==
  /\ pc = "done"
  /\ out.path = "direct"
  /\ Len(Split(diff)) >= 2
  /\ out.err = ""
  /\ out.desc # <<>>

\* ------------------------------------------- claims on GenerateEmbeddings
\* C11: GenerateEmbeddings called with no chunks fails with an error, returns
\* no vectors and issues no embedding request.
C11_EmptyInput ==
  (embedding.pc # "none" /\ Len(chunks) = 0) =>
    /\ embedding.pc = "done"
    /\ embedding.err # ""
    /\ ~embedding.panic
    /\ embedding.vectors = <<>>
    /\ embedding.calls = <<>>

\* GenerateEmbeddings has returned from a call with no chunks.
C11_Witness == pc = "done" /\ embedding.pc = "done" /\ Len(chunks) = 0

\* The contents of the chunks that the k-th request (from 1) is to carry:
\* chunks batchSize*(k-1) .. min(batchSize*k, n) - 1, counted from 0.
ExpectedInput(k) ==
  [j \in 1..(Min2(batchSize * k, Len(chunks)) - batchSize * (k - 1)) |->
     chunks[batchSize * (k - 1) + j].Content]

\* C12: on n >= 1 chunks GenerateEmbeddings issues exactly ceil(n/50)
\* requests when none fails, each of at most 50 inputs, the k-th carrying its
\* batch of chunks in input order, and a request is issued only after the one
\* before it has returned.
C12_Batching ==
  (embedding.pc # "none" /\ Len(chunks) >= 1) =>
    /\ \A k \in 1..Len(embedding.calls) :
         /\ Len(embedding.calls[k].input) <= batchSize
         /\ embedding.calls[k].input = ExpectedInput(k)
    /\ Len(embedding.calls) =
         Len(embedding.resps) + (IF embedding.pc = "wait" THEN 1 ELSE 0)
    /\ (embedding.pc = "done" /\ \A k \in 1..Len(embedding.resps) : ~embedding.resps[k].err)
         => Len(embedding.calls) = NumBatches(Len(chunks))

\* C13: every successful GenerateEmbeddings call returns one EmbeddingVector
\* per input chunk, in input order, whatever the endpoint answered.
C13_OnePerChunk ==
  (embedding.pc = "done" /\ embedding.err = "" /\ ~embedding.panic) =>
    /\ Len(embedding.vectors) = Len(chunks)
    /\ \A i \in 1..Len(embedding.vectors) : embedding.vectors[i].Chunk = chunks[i]

\* C14: once the request of a batch has failed, GenerateEmbeddings has failed
\* as a whole: it returned an error and no vectors, and the failed request is
\* the last one it issued.
C14_FailFast ==
  \A k \in 1..Len(embedding.resps) :
    embedding.resps[k].err =>
      /\ embedding.pc = "done"
      /\ embedding.err # ""
      /\ ~embedding.panic
      /\ embedding.vectors = <<>>
      /\ Len(embedding.calls) = k

\* The second request failed after the first one brought embeddings back,
\* with a third batch still to go.
C14_Witness ==
  /\ Len(embedding.resps) = 2
  /\ Len(embedding.resps[1].Data) > 0
  /\ embedding.resps[2].err
  /\ NumBatches(Len(chunks)) > 2

\* ------------------------------------------- claims on VectorStore.Search
\* The similarity of the query to the j-th stored vector.
StoredSimilarity(j) == CosineSimilarity(searchQuery, vectorStore[j].Embedding)

\* The positions in the store of the vectors a Search returned.
Returned == {searchOut.results[i].At : i \in 1..Len(searchOut.results)}

\* Search has returned.
SearchReturned == pc = "done" /\ kind = "Search" /\ ~searchOut.panic

\* C15: the results of Search are in descending order of similarity, each
\* similarity is that of the stored vector the result refers to, and no
\* stored vector left out is more similar than one that is included.
C15_Descending ==
  SearchReturned =>
    LET r == searchOut.results
    IN /\ \A i \in 1..Len(r) :
            /\ r[i].At \in 1..Len(vectorStore)
            /\ r[i].Vector = vectorStore[r[i].At]
            /\ r[i].Similarity = StoredSimilarity(r[i].At)
       /\ \A i \in 1..(Len(r) - 1) : ~FloatLess(r[i].Similarity, r[i + 1].Similarity)
       /\ \A j \in (1..Len(vectorStore)) \ Returned :
            \A i \in 1..Len(r) : ~FloatLess(r[i].Similarity, StoredSimilarity(j))

\* Search returned two results of different similarity out of a larger store
\* whose first vector is not the most similar.
C15_Witness ==
  /\ SearchReturned
  /\ Len(searchOut.results) = 2
  /\ Len(vectorStore) > 2
  /\ FloatLess(searchOut.results[2].Similarity, searchOut.results[1].Similarity)
  /\ searchOut.results[1].At # 1

\* C16: Search breaks ties by insertion order: of two stored vectors of
\* equal similarity, the one inserted earlier comes earlier in the result and
\* is the one kept when topK cuts between them.
C16_StableTies ==
  SearchReturned =>
    LET r == searchOut.results
    IN /\ \A i, j \in 1..Len(r) :
            (i < j /\ r[i].Similarity = r[j].Similarity) => r[i].At < r[j].At
       /\ \A j \in (1..Len(vectorStore)) \ Returned :
            \A i \in 1..Len(r) :
              r[i].Similarity = StoredSimilarity(j) => r[i].At < j

\* C17: on a non-empty store with topK >= 1 Search returns exactly
\* min(topK, store size) results, each referring to a distinct stored vector,
\* and a topK above the store size is not an error.
C17_TopKClamp ==
  (pc = "done" /\ kind = "Search" /\ Len(vectorStore) > 0 /\ searchTopK >= 1) =>
    /\ ~searchOut.panic
    /\ Len(searchOut.results) = Min2(searchTopK, Len(vectorStore))
    /\ Cardinality(Returned) = Len(searchOut.results)
    /\ Returned \subseteq 1..Len(vectorStore)
    /\ \A i \in 1..Len(searchOut.results) :
         searchOut.results[i].Vector = vectorStore[searchOut.results[i].At]

\* Search returned the whole of a store of several vectors to a topK above
\* its size.
C17_Witness ==
  /\ SearchReturned
  /\ Len(vectorStore) > 1
  /\ searchTopK > Len(vectorStore)
  /\ Len(searchOut.results) = Len(vectorStore)

\* C18: Search yields an empty result, without failing, whenever topK <= 0
\* and whenever the store is empty.
C18_EmptyResult ==
  (pc = "done" /\ kind = "Search" /\ (searchTopK <= 0 \/ Len(vectorStore) = 0)) =>
    /\ ~searchOut.panic
    /\ searchOut.results = <<>>

\* ------------------------------------------- claims on CosineSimilarity
\* CosineSimilarity has returned.
CosReturned == pc = "done" /\ kind = "CosineSimilarity"

\* The sum of the squares of the components of v.
SquaredNorm(v) == DotRange(v, v, 1, Len(v))

\* The vectors differ in length or one of them has zero norm.
Degenerate(v, w) == Len(v) # Len(w) \/ SquaredNorm(v) = 0 \/ SquaredNorm(w) = 0

\* C19: CosineSimilarity returns exactly 0.0 when the vectors differ in
\* length or one has zero norm (two empty vectors included), and Search ranks
\* such stored vectors with similarity 0 instead of aborting.
C19_DegenerateZero ==
  /\ (CosReturned /\ Degenerate(cosV1, cosV2)) => cosOut = FloatZero
  /\ (pc = "done" /\ kind = "Search" /\ searchTopK >= 0) =>
       /\ ~searchOut.panic
       /\ \A i \in 1..Len(searchOut.results) :
            Degenerate(searchQuery, vectorStore[searchOut.results[i].At].Embedding)
              => searchOut.results[i].Similarity = FloatZero
       /\ searchTopK >= Len(vectorStore) => Returned = 1..Len(vectorStore)

\* CosineSimilarity returned from two vectors of different lengths, neither
\* of zero norm.
C19_Witness ==
  /\ CosReturned
  /\ Len(cosV1) # Len(cosV2)
  /\ SquaredNorm(cosV1) # 0
  /\ SquaredNorm(cosV2) # 0

\* The float64 values 1 and -1.
FloatOne == [m |-> Pow2(MantissaBits - 1), e |-> 1 - MantissaBits]
FloatMinusOne == [m |-> 0 - Pow2(MantissaBits - 1), e |-> 1 - MantissaBits]

\* f is x (1 or -1) up to rounding: within four units in the last place.
Near(f, x) ==
  /\ f.e \in {0 - MantissaBits, 1 - MantissaBits}
  /\ Abs(f.m * Pow2(f.e + MantissaBits) - x * Pow2(MantissaBits)) <= 4

\* The vector -v.
Negated(v) == [i \in 1..Len(v) |-> 0 - v[i]]

\* C20: CosineSimilarity(v, v) is 1 and CosineSimilarity(v, -v) is -1 up to
\* rounding for every non-zero v, CosineSimilarity(v, w) is 0 for orthogonal v
\* and w, and every returned similarity lies in [-1, 1].
C20_CosineProperties ==
  CosReturned =>
    /\ (cosV2 = cosV1 /\ SquaredNorm(cosV1) # 0) => Near(cosOut, 1)
    /\ (cosV2 = Negated(cosV1) /\ SquaredNorm(cosV1) # 0) => Near(cosOut, 0 - 1)
    /\ (Len(cosV1) = Len(cosV2) /\ DotRange(cosV1, cosV2, 1, Len(cosV1)) = 0)
         => cosOut = FloatZero
    /\ ~FloatLess(FloatOne, cosOut)
    /\ ~FloatLess(cosOut, FloatMinusOne)

\* ---------------------------------- specification: ExtractIssueNumber
\* Every branch name of at most MaxBranchLen atoms.
BranchNames ==
  UNION {[1..n -> {"0", "1", "a", "-", "+", "N"}] : n \in 0..MaxBranchLen}

IssueStart ==
  /\ pc = "start"
  /\ kind = "ExtractIssueNumber"
  /\ utilArg \in [s : BranchNames, maxLen : {0}]
  /\ utilOut = [number |-> 0, err |-> "", text |-> <<>>]
  /\ NoEmbedding /\ NoSearch /\ NoCosine /\ served = NoEnv /\ NoPoll /\ NoFlow
  /\ diff = <<>>
  /\ chunks = <<>>
  /\ forceRAG = "nil"
  /\ out = NoOutcome
  /\ cli = NoCommandLine
  /\ provider = <<>>
  /\ runErr = ""

\* issueNumber, err := utils.ExtractIssueNumber(branchName)
CallExtractIssueNumber ==
  /\ pc = "start"
  /\ kind = "ExtractIssueNumber"
  /\ utilOut' = [number |-> ExtractIssueNumber(utilArg.s).number,
                 err |-> ExtractIssueNumber(utilArg.s).err, text |-> <<>>]
  /\ pc' = "done"
  /\ UNCHANGED <<served, poll, flow, utilArg, ragVars, diff, chunks, kind, forceRAG, out,
                 cliVars>>

IssueNext == CallExtractIssueNumber

SpecIssue == IssueStart /\ [][IssueNext]_vars

\* --------------------------------- specification: TruncateAndDashCase
\* Every string of at most MaxNameLen runes.
DashInputs ==
  UNION {[1..n -> {"a", "A", "1", "!", "-", "[e]"}] : n \in 0..MaxNameLen}

DashStart ==
  /\ pc = "start"
  /\ kind = "TruncateAndDashCase"
  /\ utilArg \in [s : DashInputs, maxLen : 0..(MaxNameLen + 1)]
  /\ utilOut = [number |-> 0, err |-> "", text |-> <<>>]
  /\ NoEmbedding /\ NoSearch /\ NoCosine /\ served = NoEnv /\ NoPoll /\ NoFlow
  /\ diff = <<>>
  /\ chunks = <<>>
  /\ forceRAG = "nil"
  /\ out = NoOutcome
  /\ cli = NoCommandLine
  /\ provider = <<>>
  /\ runErr = ""

\* utils.TruncateAndDashCase(s, maxLen)
CallTruncateAndDashCase ==
  /\ pc = "start"
  /\ kind = "TruncateAndDashCase"
  /\ utilOut' = [number |-> 0, err |-> "",
                 text |-> TruncateAndDashCase(utilArg.s, utilArg.maxLen)]
  /\ pc' = "done"
  /\ UNCHANGED <<served, poll, flow, utilArg, ragVars, diff, chunks, kind, forceRAG, out,
                 cliVars>>

DashNext == CallTruncateAndDashCase

SpecDashCase == DashStart /\ [][DashNext]_vars

\* ----------------------------------------------- specification: PollRun
\* PollRun(ctx, client, threadID, runID) of package services, or pollRun of
\* the setdesc command, is called.
PollStart ==
  /\ pc = "start"
  /\ kind \in {"services.PollRun", "cmd.pollRun"}
  /\ poll = PollState("retrieve", 0, "none", "")
  /\ NoEmbedding /\ NoSearch /\ NoCosine /\ served = NoEnv /\ NoUtil /\ NoFlow
  /\ diff = <<>>
  /\ chunks = <<>>
  /\ forceRAG = "nil"
  /\ out = NoOutcome
  /\ cli = NoCommandLine
  /\ provider = <<>>
  /\ runErr = ""

\* run, err := client.RetrieveRun(ctx, threadID, runID) and the tests on
\* what it returned.
PollRetrieve ==
  /\ poll.pc = "retrieve"
  /\ \E answer \in RunStatuses \cup {"error"} : poll' = PollHandle(poll, answer)
  /\ pc' = IF poll'.pc = "done" THEN "done" ELSE pc
  /\ UNCHANGED <<served, utilVars, flow, ragVars, diff, chunks, kind, forceRAG, out,
                 cliVars>>

\* time.Sleep(1 * time.Second) returns.
PollSleep ==
  /\ poll.pc = "sleep"
  /\ poll' = PollState("retrieve", poll.attempts, poll.status, "")
  /\ UNCHANGED <<pc, served, utilVars, flow, ragVars, diff, chunks, kind, forceRAG, out,
                 cliVars>>

PollNext == PollRetrieve \/ PollSleep

SpecPoll == PollStart /\ [][PollNext]_vars

\* The goroutine that runs PollRun keeps running: a call that came back is
\* handled and a sleep ends.  Nothing is assumed about the statuses the
\* provider reports.
SpecPollFair == SpecPoll /\ WF_vars(PollRetrieve) /\ WF_vars(PollSleep)

\* ------------------------------------ specification: CreateMergeRequest
\* The current branch, and the titles of the open requests: without the
\* branch name, with it, and empty.
FlowBranches == {<<"b">>, <<"b", "c">>}
FlowTitles == {<<>>, <<"x">>, <<"b">>, <<"c", "b">>, <<"x", "b", "c">>}

\* What GetOpenRequests may answer: an error, or at most MaxRequests open
\* requests.
OpenAnswers ==
  {[err |-> TRUE, requests |-> <<>>]}
  \cup {[err |-> FALSE, requests |-> r] :
          r \in UNION {[1..n -> [Title : FlowTitles]] : n \in 0..MaxRequests}}

FlowEnvs ==
  [branch : FlowBranches, issueProvider : BOOLEAN, crossRepoIssueRef : BOOLEAN,
   open : OpenAnswers, pushFails : BOOLEAN, issueFails : BOOLEAN, createFails : BOOLEAN]

\* CreateMergeRequest(params) is called.
FlowStart ==
  /\ pc = "start"
  /\ kind = "CreateMergeRequest"
  /\ \E env \in FlowEnvs : flow = FlowState("check", env, <<>>, "", FALSE)
  /\ NoEmbedding /\ NoSearch /\ NoCosine /\ served = NoEnv /\ NoUtil /\ NoPoll
  /\ diff = <<>>
  /\ chunks = <<>>
  /\ forceRAG = "nil"
  /\ out = NoOutcome
  /\ cli = NoCommandLine
  /\ provider = <<>>
  /\ runErr = ""

\* params.Provider.GetOpenRequests(params.IssueNumber) and the search for a
\* request of this branch.
FlowCheckStep ==
  /\ flow.pc = "check"
  /\ flow' = FlowCheck(flow)
  /\ pc' = IF flow'.pc = "done" THEN "done" ELSE pc
  /\ UNCHANGED <<served, utilVars, poll, ragVars, diff, chunks, kind, forceRAG, out,
                 cliVars>>

\* params.GitRepo.Push(params.Remote, params.CurrentBranch)
FlowPushStep ==
  /\ flow.pc = "push"
  /\ flow' = FlowPush(flow)
  /\ pc' = IF flow'.pc = "done" THEN "done" ELSE pc
  /\ UNCHANGED <<served, utilVars, poll, ragVars, diff, chunks, kind, forceRAG, out,
                 cliVars>>

\* issueProvider.GetIssue(params.IssueNumber)
FlowGetIssueStep ==
  /\ flow.pc = "issue"
  /\ flow' = FlowGetIssue(flow)
  /\ pc' = IF flow'.pc = "done" THEN "done" ELSE pc
  /\ UNCHANGED <<served, utilVars, poll, ragVars, diff, chunks, kind, forceRAG, out,
                 cliVars>>

\* params.Provider.CreateMergeRequest(mrParams) and the return
FlowCreateStep ==
  /\ flow.pc = "create"
  /\ flow' = FlowCreate(flow)
  /\ pc' = "done"
  /\ UNCHANGED <<served, utilVars, poll, ragVars, diff, chunks, kind, forceRAG, out,
                 cliVars>>

FlowNext == FlowCheckStep \/ FlowPushStep \/ FlowGetIssueStep \/ FlowCreateStep

SpecFlow == FlowStart /\ [][FlowNext]_vars

\* ------------------------------------------------ claims C21 to C30
\* An issue description came back from a generator.
IssueDescribed ==
  pc = "done" /\ kind = "issue" /\ out.err = "" /\ ~out.panic

\* strings.Join(ls, "\n")
RECURSIVE JoinLines(_)
JoinLines(ls) ==
  IF Len(ls) = 0 THEN <<>>
  ELSE IF Len(ls) = 1 THEN ls[1]
  ELSE ls[1] \o <<NL>> \o JoinLines(Tail(ls))

\* C21: an issue generator, on the direct path and on the RAG path alike,
\* parses the completion's content so: when it starts with "## ", the title
\* is its first line without that prefix, trimmed, and the body is the
\* remaining lines, trimmed ("## My Title\n\nBody text" gives "My Title" and
\* "Body text"); otherwise the title is empty and the body is the content,
\* unchanged.
C21_TitleExtraction ==
  IssueDescribed =>
    LET result == served.chat.Choices[1]
        lines == Split(result)
    IN /\ (result # <<>> /\ Head(result) = "H") =>
            /\ out.title = TrimSpace(Tail(lines[1]))
            /\ out.desc = TrimSpace(JoinLines(Tail(lines)))
       /\ ~(result # <<>> /\ Head(result) = "H") =>
            /\ out.title = <<>>
            /\ out.desc = result
       /\ result = <<"H", "x", NL, NL, "x">> =>
            /\ out.title = <<"x">>
            /\ out.desc = <<"x">>

\* A title and a body that had white space around them came back on the RAG
\* path.
C21_Witness ==
  /\ IssueDescribed
  /\ out.path = "rag"
  /\ served.chat.Choices[1] = <<"H", " ", "x", " ", "y", " ", NL, NL, "x", NL, "y", NL>>
  /\ out.title = <<"x", " ", "y">>
  /\ out.desc = <<"x", NL, "y">>

\* A description request returned or crashed.
Requested == pc = "done" /\ kind \in {"MR", "issue"}

\* The number of chunk-embedding requests of the diff: the endpoint has one
\* behaviour per batch of the diff's chunks (see Envs).
DiffBatches == Len(served.embed)

\* The j-th downstream call of the request failed: on the RAG path the
\* calls are those of the batches, the query embedding and the completion;
\* on the direct path the completion alone.  A completion fails when the
\* call fails or when it holds no choice.
CallFailed(j) ==
  IF out.path = "rag" /\ j <= DiffBatches THEN served.embed[j].count = "err"
  ELSE IF out.path = "rag" /\ j = DiffBatches + 1 THEN served.query.err
  ELSE served.chat.err \/ Len(served.chat.Choices) = 0

\* C22: when a downstream call of a description request fails (the
\* embedding call of any batch, the query-embedding call, the completion
\* call, or a completion without choices), the request returns an error
\* with an empty title and an empty description, and the failed call is the
\* last one it made.
C22_NoPartialSuccess ==
  Requested =>
    \A j \in 1..Len(out.calls) :
      CallFailed(j) =>
        /\ out.err # ""
        /\ out.title = <<>>
        /\ out.desc = <<>>
        /\ j = Len(out.calls)

\* The embedding call of the second batch failed after the one of the first
\* batch had succeeded.
C22_Witness ==
  /\ Requested
  /\ out.path = "rag"
  /\ DiffBatches = 2
  /\ Len(out.calls) = 2
  /\ served.embed[1].count = "exact"
  /\ CallFailed(2)
  /\ out.err = "failed to generate embeddings"
  /\ out.desc = <<>>

\* The least c with c * batchSize >= n.
CeilBatches(n) == CHOOSE c \in 0..n : c * batchSize >= n /\ (c - 1) * batchSize < n

\* The description request took the RAG path and returned a description.
RAGSucceeded == Requested /\ out.path = "rag" /\ out.err = "" /\ ~out.panic

\* The positions of the completion calls among the calls of the request.
ChatCalls == {j \in 1..Len(out.calls) : out.calls[j].api = "chat"}

\* C27: a successful description request on the RAG path over the n chunks
\* of the diff issues ceil(n / 50) chunk-embedding calls (the b-th one for
\* chunks 50 (b - 1) + 1 to 50 b), then one query-embedding call, then one
\* completion call, and nothing else; whatever the outcome and the path, a
\* completion call comes after calls that all succeeded, a request issues
\* at most one, and a request that returns a description issued exactly one.
C27_CallOrder ==
  /\ RAGSucceeded =>
       LET cs == ChunkDiff(diff)
           b == CeilBatches(Len(cs))
       IN /\ Len(out.calls) = b + 2
          /\ \A j \in 1..b :
               /\ out.calls[j].api = "embeddings"
               /\ out.calls[j].input =
                    [i \in 1..(Min2(j * batchSize, Len(cs)) - (j - 1) * batchSize) |->
                       cs[(j - 1) * batchSize + i].Content]
          /\ out.calls[b + 1].api = "embeddings"
          /\ Len(out.calls[b + 1].input) = 1
          /\ out.calls[b + 2].api = "chat"
  /\ Requested =>
       /\ Cardinality(ChatCalls) <= 1
       /\ \A j \in ChatCalls : \A i \in 1..(j - 1) :
            out.calls[i].api = "embeddings" /\ ~CallFailed(i)
       /\ (out.err = "" /\ ~out.panic) => Cardinality(ChatCalls) = 1

\* A request over more chunks than a batch holds succeeded with four calls.
C27_Witness ==
  /\ RAGSucceeded
  /\ Len(ChunkDiff(diff)) > batchSize
  /\ Len(out.calls) = 4
  /\ Len(out.calls[1].input) = batchSize
  /\ Len(out.calls[2].input) = Len(ChunkDiff(diff)) - batchSize

\* The context block of the prompt of the completion call.
ContextChanges == out.calls[Len(out.calls)].prompt.diffContent.changes

\* The number of chunks in cs, and of changes in the context, that have the
\* content and the file path of x.
ChunksLike(cs, x) ==
  Cardinality({c \in 1..Len(cs) : cs[c].Content = x.content /\ cs[c].FilePath = x.file})
ChangesLike(x) ==
  Cardinality({i \in 1..Len(ContextChanges) :
                 ContextChanges[i].content = x.content /\ ContextChanges[i].file = x.file})

\* C28: the context block a RAG request sends to the completion holds
\* exactly min(15, number of chunks of the diff) chunks, no chunk more than
\* once, in descending order of similarity.
C28_BoundedContext ==
  (Requested /\ out.path = "rag" /\ ChatCalls # {}) =>
    LET cs == ChunkDiff(diff)
    IN /\ Len(ContextChanges) = Min2(15, Len(cs))
       /\ \A i \in 1..Len(ContextChanges) :
            ChangesLike(ContextChanges[i]) <= ChunksLike(cs, ContextChanges[i])
       /\ \A i \in 1..(Len(ContextChanges) - 1) :
            ~FloatLess(ContextChanges[i].similarity, ContextChanges[i + 1].similarity)

\* ExtractIssueNumber returned.
IssueReturned == pc = "done" /\ kind = "ExtractIssueNumber"

\* p is numeric: a decimal numeral, with or without the sign "+", that an
\* int holds.
Numeral(p) ==
  LET ds == IF p # <<>> /\ Head(p) = "+" THEN Tail(p) ELSE p
  IN ds # <<>> /\ \A i \in 1..Len(ds) : IsDigitChar(ds[i])

\* The number the numeral p denotes.
NumeralValue(p) == DecimalValue(IF Head(p) = "+" THEN Tail(p) ELSE p)

\* The least element of the non-empty set S of integers.
Least(S) == CHOOSE i \in S : \A j \in S : i <= j

DashReturned == pc = "done" /\ kind = "TruncateAndDashCase"

\* The bytes of text stand for lower-case letters, digits and dashes only.
OnlyDashCase(text) ==
  \A i \in 1..Len(text) :
    \/ text[i] \in {"a", "1", "-"}
    \/ text[i] = "c3" /\ i < Len(text) /\ text[i + 1] = "a9"
    \/ text[i] = "a9" /\ i > 1 /\ text[i - 1] = "c3"

\* C24: for every input and every maxLen >= 0, TruncateAndDashCase returns
\* at most maxLen bytes that are lower-case letters, digits and dashes only,
\* with no dash at the start, no dash at the end and no two dashes in a row.
C24_DashCase ==
  DashReturned =>
    LET text == utilOut.text
    IN /\ Len(text) <= utilArg.maxLen
       /\ OnlyDashCase(text)
       /\ text # <<>> => (Head(text) # "-" /\ text[Len(text)] # "-")
       /\ \A i \in 1..(Len(text) - 1) : ~(text[i] = "-" /\ text[i + 1] = "-")

\* ChunkDiff returned.
Chunked == pc = "done" /\ kind = "none" /\ cli = NoCommandLine

\* Line i of lines starts with "diff --git".
FileHeader(lines, i) == lines[i] # <<>> /\ Head(lines[i]) = "G"

\* The last line of the buffer that starts after line start, by the rule
\* of the claim: the first line at which the buffer holds 800 lines, or
\* holds at least 100 lines with a file header next; 0 when the input ends
\* before.
BufferEnd(lines, start) ==
  LET n == Len(lines)
      ends(i) == i - start = 800 \/ (i - start >= 100 /\ i < n /\ FileHeader(lines, i + 1))
      candidates == (start + 100)..Min2(start + 800, n)
  IN IF \E i \in candidates : ends(i)
     THEN CHOOSE i \in candidates : ends(i) /\ \A j \in (start + 100)..(i - 1) : ~ends(j)
     ELSE 0

\* The buffers the rule cuts the lines after start into; the last one is
\* what remains when the input ends.
RECURSIVE Buffers(_, _)
Buffers(lines, start) ==
  IF start >= Len(lines) THEN <<>>
  ELSE IF BufferEnd(lines, start) = 0 THEN << [from |-> start + 1, to |-> Len(lines)] >>
  ELSE << [from |-> start + 1, to |-> BufferEnd(lines, start)] >>
       \o Buffers(lines, BufferEnd(lines, start))

\* The buffers that become chunks: those that are not white space only.
KeptBuffers(lines) ==
  LET blank(b) == \A i \in b.from..b.to : \A c \in 1..Len(lines[i]) : lines[i][c] = " "
      keep(b) == ~blank(b)
  IN SelectSeq(Buffers(lines, 0), keep)

\* C25: ChunkDiff ends a chunk exactly when the buffer has reached 800
\* lines, or when the next line starts with "diff --git" and the buffer
\* holds at least 100 lines: its chunks are the buffers this rule cuts the
\* diff into (those of white space only left out).  Every chunk but the
\* last has 800 lines, or has 100 to 799 lines and a "diff --git" line
\* right after it; and a chunk that starts with a "diff --git" line comes
\* after a buffer of at least 100 lines.
C25_BoundaryRule ==
  Chunked =>
    LET lines == Split(diff)
        kept == KeptBuffers(lines)
    IN /\ Len(chunks) = Len(kept)
       /\ \A k \in 1..Len(chunks) :
            /\ chunks[k].Lines = kept[k].to - kept[k].from + 1
            /\ SubSeq(chunks[k].Content, 1, Len(lines[kept[k].from]) + 1)
                 = lines[kept[k].from] \o <<NL>>
            /\ k < Len(chunks) =>
                 \/ chunks[k].Lines = 800
                 \/ /\ chunks[k].Lines \in 100..799
                    /\ FileHeader(lines, kept[k].to + 1)
            /\ (kept[k].from > 1 /\ FileHeader(lines, kept[k].from)) =>
                 \E b \in 100..800 :
                   BufferEnd(lines, kept[k].from - 1 - b) = kept[k].from - 1

\* A file header was met with fewer than 100 lines in the buffer and did not
\* start a chunk, and a later one, met with 100 lines, did.
C25_Witness ==
  /\ Chunked
  /\ Len(chunks) = 2
  /\ chunks[1].Lines = 100
  /\ \E i \in 2..100 : FileHeader(Split(diff), i)
  /\ FileHeader(Split(diff), 101)

\* Line i of lines is a "+++ b/<path>" line.
NewFileLine(lines, i) == lines[i] # <<>> /\ Head(lines[i]) = "P"

\* Some line up to line to is a "+++ b/<path>" line.
SomeNewFileLine(lines, to) == \E i \in 1..to : NewFileLine(lines, i)

\* The path of the most recent "+++ b/<path>" line up to line to.
RecentPath(lines, to) ==
  Tail(lines[CHOOSE i \in 1..to :
               NewFileLine(lines, i) /\ \A j \in (i + 1)..to : ~NewFileLine(lines, j)])

\* C26 as stated: the FilePath of a chunk is the path of the most recent
\* "+++ b/<path>" line of the diff up to the chunk's last line, and it is
\* empty if and only if there is no such line.
C26_FilePath ==
  Chunked =>
    LET lines == Split(diff)
        kept == KeptBuffers(lines)
    IN \A k \in 1..Len(chunks) :
         /\ SomeNewFileLine(lines, kept[k].to) =>
              chunks[k].FilePath = RecentPath(lines, kept[k].to)
         /\ chunks[k].FilePath = <<>> <=> ~SomeNewFileLine(lines, kept[k].to)

\* C26, amended: the FilePath of a chunk is the path of the most recent
\* "+++ b/<path>" line of the diff up to the chunk's last line, carried
\* over from earlier chunks when the chunk holds none, whatever "diff --git"
\* lines come after it; it is empty when there is no such line, and
\* otherwise only when the path of that line is empty.
C26_FilePathAmended ==
  Chunked =>
    LET lines == Split(diff)
        kept == KeptBuffers(lines)
    IN \A k \in 1..Len(chunks) :
         /\ SomeNewFileLine(lines, kept[k].to) =>
              chunks[k].FilePath = RecentPath(lines, kept[k].to)
         /\ ~SomeNewFileLine(lines, kept[k].to) => chunks[k].FilePath = <<>>

\* The second chunk holds "diff --git" lines and no "+++ b/" line, and has
\* the path of the first chunk's.
C26_Witness ==
  /\ Chunked
  /\ Len(chunks) = 2
  /\ chunks[2].FilePath = <<"x">>
  /\ LET lines == Split(diff)
     IN /\ \A i \in (chunks[1].Lines + 1)..Len(lines) : ~NewFileLine(lines, i)
        /\ \E i \in (chunks[1].Lines + 1)..Len(lines) : FileHeader(lines, i)

\* C29: PollRun terminates: whatever statuses the provider reports, a run
\* that stays queued or in progress for ever included, the call eventually
\* returns.
C29_Terminates == <>(poll.pc = "done")

\* The methods the flow has called, in order.
FlowOps == [i \in 1..Len(flow.calls) |-> flow.calls[i].op]

\* The flow has called method op.
Called(op) == \E i \in 1..Len(flow.calls) : flow.calls[i].op = op

\* GetOpenRequests returned a request whose title holds the branch name.
OpenRequestFound ==
  /\ ~flow.env.open.err
  /\ \E i \in 1..Len(flow.env.open.requests) :
       LET title == flow.env.open.requests[i].Title
           branch == flow.env.branch
       IN \E a \in 1..Len(title) : \E z \in a..Len(title) : SubSeq(title, a, z) = branch

\* C30: the steps of CreateMergeRequest run in the order check of the open
\* requests, push, issue fetch, request creation; when an open request
\* whose title holds the branch name is found the flow returns an error
\* without a push and without a request; a request is created only after a
\* push that succeeded and an issue fetch that succeeded; and an error of
\* the check of the open requests does not stop the flow.
C30_FlowOrder ==
  kind = "CreateMergeRequest" =>
    /\ \E n \in 0..4 :
         FlowOps = SubSeq(<<"GetOpenRequests", "Push", "GetIssue", "CreateMergeRequest">>, 1, n)
    /\ OpenRequestFound =>
         /\ ~Called("Push") /\ ~Called("CreateMergeRequest") /\ ~flow.request
         /\ flow.pc = "done" => flow.err # ""
    /\ (Called("CreateMergeRequest") \/ flow.request) =>
         /\ Called("Push") /\ ~flow.env.pushFails
         /\ Called("GetIssue") /\ ~flow.env.issueFails
    /\ (flow.env.open.err /\ flow.pc = "done") => Called("Push")

\* The check of the open requests failed and the request was created.
C30_Witness ==
  /\ kind = "CreateMergeRequest"
  /\ flow.pc = "done"
  /\ flow.env.open.err
  /\ FlowOps = <<"GetOpenRequests", "Push", "GetIssue", "CreateMergeRequest">>
  /\ flow.request
  /\ flow.err = ""

====
